---- MODULE Spec2Model ----
(***************************************************************************)
(* Verification model of iptv-sniffer's scanning core.                     *)
(*                                                                         *)
(*   SpecLimiter : scanner/rate_limiter.py, RateLimiter shared by several  *)
(*                 concurrent callers (execute and `async with`).          *)
(*   SpecOrch    : scanner/orchestrator.py, one ScanOrchestrator run       *)
(*                 pulled by a consumer, with progress observers.          *)
(*   Spec        : web/api/scan.py, ScanManager sessions, each with its    *)
(*                 background task running the orchestrator.               *)
(*                                                                         *)
(* asyncio is modelled as cooperative scheduling: an action is the code    *)
(* one task runs between two suspension points.                            *)
(***************************************************************************)
EXTENDS Integers, Sequences, FiniteSets, TLC

(***************************************************************************)
(* Bounds of the model                                                     *)
(***************************************************************************)
NumCallers == 3
MaxCapacity == 2
MaxTime == 2
NumUrls == 2
MaxTargets == 2
MaxObservers == 2
NumSessions == 2
MaxCancels == 1
MaxAddresses == 2
MaxPorts == 2
MaxPhrases == 2
MaxStreams == 2
MaxSpan == 2
MaxRanges == 2
MaxPortArgs == 2
NumChannelIds == 2

\* `timeout=None` of RateLimiter.execute
NoTimeout == -1
\* ScanManager._default_orchestrator_factory: max_concurrency
DefaultMaxConcurrency == 10
\* ScanSession.completed_at = None
NoStamp == 0
\* ScanSession.error = None
NoError == "None"
\* str(exc) of the TimeoutError asyncio.wait_for raises
TimeoutErrorStr == ""

\* StreamValidator._DEFAULT_TIMEOUT, the default of validate's timeout
ValidatorDefaultTimeout == 10
\* StreamValidator._RTP_TIMEOUT
RtpTimeout == 20
\* SmartPortScanner.__init__: the default of discovery_timeout
DefaultDiscoveryTimeout == 20
\* screenshot._MAX_TIMEOUT
ScreenshotMaxTimeout == 60
\* TemplateScanStrategy._MAX_RANGE
TemplateMaxRange == 1024

Callers == 1..NumCallers
Times == 1..MaxTime
Urls == 1..NumUrls
Observers == 1..MaxObservers
SessionIds == 1..NumSessions
ChannelIds == 1..NumChannelIds

VARIABLES
    \* ---- RateLimiter (rate_limiter.py) ----
    lim_capacity,   \* RateLimiter._capacity
    lim_timeout,    \* RateLimiter._timeout
    sem_value,      \* RateLimiter._semaphore: free slots
    sem_waiters,    \* RateLimiter._semaphore: FIFO of blocked callers
    callPc,         \* position of each caller
    callKind,       \* "execute" or "with" (async with limiter)
    callTimeout,    \* the timeout argument of execute, NoTimeout for None
    workDur,        \* how long the work that ended in the last step had run
    \* ---- ScanOrchestrator (orchestrator.py), one execute_scan run ----
    o_targets,      \* the targets strategy.generate_targets() yields, in order
    o_run,          \* the execute_scan generator: position, cursor, progress
    o_calls,        \* urls handed to validator.validate, in call order
    o_collected,    \* results the consumer has received, in order
    obsPc,          \* each progress callback: registered? running? outcome?
    o_seen,         \* snapshots each progress callback was called with
    \* ---- ScanManager (web/api/scan.py) ----
    sessions,       \* ScanManager._sessions, by scan id in creation order
    cancelWait,     \* per session: cancel_scan calls at `await session.task`
    ncancels,       \* cancel_scan calls made so far
    cancelReturn,   \* per session: what the last returned cancel_scan call left
    cancelCall,     \* per session: what the first cancel_scan call found
    badRequests,    \* start_scan calls made with a request that cannot be built
    \* ---- SmartPortScanner (smart_port_scanner.py), one scan() run ----
    sp_strategy,    \* MulticastScanStrategy: iter_ip_addresses() and ports
    sp_enable_smart_scan,   \* SmartPortScanner._enable_smart_scan
    sp_discovery_timeout,   \* SmartPortScanner._discovery_timeout
    sp_gen,         \* the scan() generator: position and local variables
    sp_calls,       \* validator.validate calls: (ip, port, timeout), in order
    sp_emitted,     \* results the consumer has received, in order
    \* ---- StreamValidator (validator.py), one validate() call ----
    v_url,          \* the url argument: its scheme as written, and whether
                    \* urlparse accepts it
    v_timeout,      \* the timeout argument
    v_installed,    \* check_ffmpeg_installed(): ffmpeg is on the PATH
    v_pc,           \* "called", "probing" (in the worker thread), "returned",
                    \* "raised"
    v_probes,       \* ffmpeg.probe calls made: protocol, timeout, options
    v_outcome,      \* what the last ffmpeg.probe call did
    v_result,       \* the StreamValidationResult validate returned
    \* ---- TemplateScanStrategy / MulticastScanStrategy, one strategy ----
    st_args,        \* the class and the arguments of the constructor call
    st_pc,          \* "new", "constructed", "raised", "exhausted"
    st_self,        \* the fields __init__ set on the strategy
    st_gen,         \* generate_targets(): the loop variables
    st_yielded,     \* the urls generate_targets() has yielded, in order
    \* ---- capture_screenshot (screenshot.py), one call ----
    sc_args,        \* the timeout and hwaccel arguments
    sc_installed,   \* check_ffmpeg_installed()
    sc_thread,      \* _sync_capture_screenshot in the executor thread
    sc_runs,        \* the ffmpeg.run calls: input options and outcome
    sc_caller,      \* what the awaiting caller of capture_screenshot got
    \* ---- JSONChannelRepository (json_repository.py), one repository ----
    repo_file,      \* the channels serialized in the JSON file, in order
    repo_ret,       \* the last add or delete call: what it found and returned
    \* ---- the streams a SmartPortScanner run meets ----
    sp_streams      \* per (address, port): a probe of it validates

limVars == <<lim_capacity, lim_timeout, sem_value, sem_waiters,
             callPc, callKind, callTimeout, workDur>>

orchVars == <<o_targets, o_run, o_calls, o_collected, obsPc, o_seen>>

mgrVars == <<sessions, cancelWait, ncancels, cancelReturn, cancelCall,
             badRequests>>

smartVars == <<sp_strategy, sp_enable_smart_scan, sp_discovery_timeout,
               sp_gen, sp_calls, sp_emitted>>

valVars == <<v_url, v_timeout, v_installed, v_pc, v_probes, v_outcome,
             v_result>>

stratVars == <<st_args, st_pc, st_self, st_gen, st_yielded>>

shotVars == <<sc_args, sc_installed, sc_thread, sc_runs, sc_caller>>

\* the components added last, which the specifications before them leave idle
repoVars == <<repo_file, repo_ret>>

envVars == <<sp_streams>>

lateVars == <<shotVars, repoVars, envVars>>

vars == <<limVars, orchVars, mgrVars, smartVars, valVars, stratVars, lateVars>>

notLimVars == <<orchVars, mgrVars, smartVars, valVars, stratVars, lateVars>>
notOrchVars == <<limVars, mgrVars, smartVars, valVars, stratVars, lateVars>>
notMgrVars == <<limVars, orchVars, smartVars, valVars, stratVars, lateVars>>
notSmartVars == <<limVars, orchVars, mgrVars, valVars, stratVars, lateVars>>
notValVars == <<limVars, orchVars, mgrVars, smartVars, stratVars, lateVars>>
notStratVars == <<limVars, orchVars, mgrVars, smartVars, valVars, lateVars>>
notShotVars == <<limVars, orchVars, mgrVars, smartVars, valVars, stratVars,
                 repoVars, envVars>>
notRepoVars == <<limVars, orchVars, mgrVars, smartVars, valVars, stratVars,
                 shotVars, envVars>>

(***************************************************************************)
(* RateLimiter                                                             *)
(***************************************************************************)

RECURSIVE FirstWaiting(_, _)
\* index of the first waiter of q that has not been woken yet, 0 if none
FirstWaiting(q, pcs) ==
    IF q = <<>> THEN 0
    ELSE IF pcs[Head(q)] = "waiting" THEN 1
    ELSE LET r == FirstWaiting(Tail(q), pcs) IN IF r = 0 THEN 0 ELSE r + 1

RemoveFrom(q, c) == SelectSeq(q, LAMBDA x : x # c)

\* asyncio.Semaphore.locked
SemLocked(value, q) == value = 0 \/ q # <<>>

\* asyncio.Semaphore._wake_up_next: hand one slot to the first blocked caller
WakeUpNext(value, q, pcs) ==
    LET i == FirstWaiting(q, pcs) IN
    IF i = 0 THEN [value |-> value, pcs |-> pcs]
    ELSE [value |-> value - 1, pcs |-> [pcs EXCEPT ![q[i]] = "woken"]]

\* mutant: release frees the slot without waking a blocked caller
AExit_NoWakeUp(value, q, pcs) == [value |-> value + 1, pcs |-> pcs]

\* RateLimiter.__aexit__: self._semaphore.release()
AExit(value, q, pcs) == WakeUpNext(value + 1, q, pcs)

\* mutant: the per-call timeout is ignored
EffectiveTimeout_DefaultOnly(timeout, default) == default

\* RateLimiter.execute: effective_timeout
EffectiveTimeout(timeout, default) ==
    IF timeout # NoTimeout THEN timeout ELSE default

Deadline(c) == EffectiveTimeout(callTimeout[c], lim_timeout)

\* RateLimiter.__init__
LimiterInit ==
    /\ lim_capacity \in 1..MaxCapacity
    /\ lim_timeout \in Times
    /\ sem_value = lim_capacity
    /\ sem_waiters = <<>>
    /\ callPc = [c \in Callers |-> "idle"]
    /\ callKind = [c \in Callers |-> "none"]
    /\ callTimeout = [c \in Callers |-> NoTimeout]
    /\ workDur = 0

\* mutant: admission without waiting for a free slot
AEnter_NoWait(c) ==
    /\ sem_value' = sem_value - 1
    /\ sem_waiters' = sem_waiters
    /\ callPc' = [callPc EXCEPT ![c] = "running"]

\* RateLimiter.__aenter__: await self._semaphore.acquire()
AEnter(c) ==
    IF ~SemLocked(sem_value, sem_waiters)
    THEN /\ sem_value' = sem_value - 1
         /\ sem_waiters' = sem_waiters
         /\ callPc' = [callPc EXCEPT ![c] = "running"]
    ELSE /\ sem_value' = sem_value
         /\ sem_waiters' = Append(sem_waiters, c)
         /\ callPc' = [callPc EXCEPT ![c] = "waiting"]

\* a caller submits `await limiter.execute(work, timeout=t)`
CallExecute(c) ==
    /\ callPc[c] = "idle"
    /\ \E t \in Times \cup {NoTimeout} :
          /\ callKind' = [callKind EXCEPT ![c] = "execute"]
          /\ callTimeout' = [callTimeout EXCEPT ![c] = t]
    /\ AEnter(c)
    /\ UNCHANGED <<lim_capacity, lim_timeout, workDur>>
    /\ UNCHANGED notLimVars

\* a caller enters `async with limiter:`
CallWith(c) ==
    /\ callPc[c] = "idle"
    /\ callKind' = [callKind EXCEPT ![c] = "with"]
    /\ AEnter(c)
    /\ UNCHANGED <<lim_capacity, lim_timeout, callTimeout, workDur>>
    /\ UNCHANGED notLimVars

\* a blocked caller whose slot was handed over resumes inside acquire()
Admitted(c) ==
    /\ callPc[c] = "woken"
    /\ LET q == RemoveFrom(sem_waiters, c)
           pcs == [callPc EXCEPT ![c] = "running"]
           w == IF sem_value > 0 THEN WakeUpNext(sem_value, q, pcs)
                ELSE [value |-> sem_value, pcs |-> pcs]
       IN /\ sem_waiters' = q
          /\ sem_value' = w.value
          /\ callPc' = w.pcs
    /\ UNCHANGED <<lim_capacity, lim_timeout, callKind, callTimeout, workDur>>
    /\ UNCHANGED notLimVars

\* mutant: the slot is given back only when the work returned normally
LeaveBlock_OnSuccessOnly(c, how) ==
    LET pcs == [callPc EXCEPT ![c] = how]
        r == IF how = "returned" THEN AExit(sem_value, sem_waiters, pcs)
             ELSE [value |-> sem_value, pcs |-> pcs] IN
    /\ sem_value' = r.value
    /\ callPc' = r.pcs
    /\ callKind' = [callKind EXCEPT ![c] = "none"]
    /\ callTimeout' = [callTimeout EXCEPT ![c] = NoTimeout]
    /\ UNCHANGED <<lim_capacity, lim_timeout, sem_waiters>>
    /\ UNCHANGED notLimVars

\* leave the `async with self` block with outcome `how`; the call is over
\* and its arguments are gone
LeaveBlock(c, how) ==
    LET r == AExit(sem_value, sem_waiters, [callPc EXCEPT ![c] = how]) IN
    /\ sem_value' = r.value
    /\ callPc' = r.pcs
    /\ callKind' = [callKind EXCEPT ![c] = "none"]
    /\ callTimeout' = [callTimeout EXCEPT ![c] = NoTimeout]
    /\ UNCHANGED <<lim_capacity, lim_timeout, sem_waiters>>
    /\ UNCHANGED notLimVars

\* execute: the work finishes within the deadline and its value is returned
WorkReturns(c) ==
    /\ callPc[c] = "running" /\ callKind[c] = "execute"
    /\ \E d \in Times : d <= Deadline(c) /\ workDur' = d
    /\ LeaveBlock(c, "returned")

\* execute: the work raises its own exception within the deadline
WorkRaises(c) ==
    /\ callPc[c] = "running" /\ callKind[c] = "execute"
    /\ \E d \in Times : d <= Deadline(c) /\ workDur' = d
    /\ LeaveBlock(c, "raised")

\* execute: the work is still running at the deadline; asyncio.wait_for
\* cancels it and raises TimeoutError
WorkTimesOut(c) ==
    /\ callPc[c] = "running" /\ callKind[c] = "execute"
    /\ workDur' = Deadline(c)
    /\ LeaveBlock(c, "timeout")

\* the body of an `async with limiter:` block ends, normally or by raising
BlockEnds(c) ==
    /\ callPc[c] = "running" /\ callKind[c] = "with"
    /\ workDur' = workDur
    /\ \E how \in {"returned", "raised"} : LeaveBlock(c, how)

\* the caller's task is cancelled while its work runs
CancelRunning(c) ==
    /\ callPc[c] = "running"
    /\ workDur' = workDur
    /\ LeaveBlock(c, "cancelled")

\* the caller's task is cancelled while it waits for admission
CancelBlocked(c) ==
    /\ callPc[c] \in {"waiting", "woken"}
    /\ LET q == RemoveFrom(sem_waiters, c)
           pcs == [callPc EXCEPT ![c] = "cancelled"]
           w == IF callPc[c] = "woken" THEN WakeUpNext(sem_value + 1, q, pcs)
                ELSE [value |-> sem_value, pcs |-> pcs]
       IN /\ sem_waiters' = q
          /\ sem_value' = w.value
          /\ callPc' = w.pcs
    /\ callKind' = [callKind EXCEPT ![c] = "none"]
    /\ callTimeout' = [callTimeout EXCEPT ![c] = NoTimeout]
    /\ UNCHANGED <<lim_capacity, lim_timeout, workDur>>
    /\ UNCHANGED notLimVars

\* a limiter nobody uses
LimiterIdle ==
    /\ lim_capacity = 1
    /\ lim_timeout = 1
    /\ sem_value = 1
    /\ sem_waiters = <<>>
    /\ callPc = [c \in Callers |-> "idle"]
    /\ callKind = [c \in Callers |-> "none"]
    /\ callTimeout = [c \in Callers |-> NoTimeout]
    /\ workDur = 0

LimiterStep ==
    \E c \in Callers :
        \/ CallExecute(c)
        \/ CallWith(c)
        \/ Admitted(c)
        \/ WorkReturns(c)
        \/ WorkRaises(c)
        \/ WorkTimesOut(c)
        \/ BlockEnds(c)
        \/ CancelRunning(c)
        \/ CancelBlocked(c)

(***************************************************************************)
(* ScanOrchestrator                                                        *)
(***************************************************************************)

\* the strategies: finite sequences of target urls
Strategies == UNION {[1..n -> Urls] : n \in 0..MaxTargets}

\* ScanStrategy.estimate_target_count
EstimateTargetCount(targets) == Len(targets)

NoResult == [url |-> 0, is_valid |-> FALSE, error_category |-> "none"]

\* StreamValidator.validate(url): the results a probe of url can return
ValidateResults(url) ==
    {[url |-> url, is_valid |-> TRUE, error_category |-> "none"],
     [url |-> url, is_valid |-> FALSE, error_category |-> "timeout"],
     [url |-> url, is_valid |-> FALSE, error_category |-> "network_unreachable"]}

\* ScanProgress(total=total)
ScanProgress(total) ==
    [total |-> total, completed |-> 0, valid |-> 0, invalid |-> 0]

\* mutant: only valid results are counted
CountResult_ValidOnly(p, res) ==
    IF res.is_valid
    THEN [p EXCEPT !.completed = @ + 1, !.valid = @ + 1]
    ELSE p

\* execute_scan: the counters after one more result
CountResult(p, res) ==
    IF res.is_valid
    THEN [p EXCEPT !.completed = @ + 1, !.valid = @ + 1]
    ELSE [p EXCEPT !.completed = @ + 1, !.invalid = @ + 1]

\* ScanOrchestrator.__init__ and the generator object execute_scan returns,
\* before its first __anext__
OrchNew(cap) ==
    [pc |-> "init", idx |-> 0, progress |-> ScanProgress(0),
     result |-> NoResult, exc |-> "none", cap |-> cap, sem |-> cap,
     late |-> 0]

\* mutant: the loop stops one target early
OrchAnext_OffByOne(run, targets) ==
    LET r0 == IF run.pc = "init"
              THEN [run EXCEPT
                      !.progress = ScanProgress(EstimateTargetCount(targets))]
              ELSE run
    IN IF r0.idx + 1 >= Len(targets)
       THEN [r0 EXCEPT !.pc = "exhausted", !.result = NoResult]
       ELSE [r0 EXCEPT !.pc = "probing", !.idx = @ + 1, !.sem = @ - 1,
                       !.result = NoResult]

\* the consumer asks for the next result: execute_scan runs from its start
\* or from the yield to the next probe, which it awaits under the limiter
OrchAnext(run, targets) ==
    LET r0 == IF run.pc = "init"
              THEN [run EXCEPT
                      !.progress = ScanProgress(EstimateTargetCount(targets))]
              ELSE run
    IN IF r0.idx = Len(targets)
       THEN [r0 EXCEPT !.pc = "exhausted", !.result = NoResult]
       ELSE [r0 EXCEPT !.pc = "probing", !.idx = @ + 1, !.sem = @ - 1,
                       !.result = NoResult]

\* mutant: the result is yielded while the callbacks still run
OrchProbeReturned_YieldFirst(run, res, ncb) ==
    [run EXCEPT !.sem = @ + 1,
                !.progress = CountResult(@, res),
                !.result = res,
                !.pc = "yielded"]

\* the probe returned res: slot released, counters updated, progress
\* dispatched to ncb callbacks; without callbacks the result is yielded
OrchProbeReturned(run, res, ncb) ==
    [run EXCEPT !.sem = @ + 1,
                !.progress = CountResult(@, res),
                !.result = res,
                !.pc = IF ncb = 0 THEN "yielded" ELSE "dispatching"]

\* the probe is still running at the limiter's deadline: execute raises
\* TimeoutError, which nothing in execute_scan catches
OrchProbeTimedOut(run) ==
    [run EXCEPT !.sem = @ + 1, !.late = 1,
                !.pc = "raised", !.exc = "TimeoutError"]

\* the task running execute_scan is cancelled while it awaits the probe
OrchProbeCancelled(run) ==
    [run EXCEPT !.sem = @ + 1, !.pc = "raised", !.exc = "CancelledError"]

\* _dispatch_progress: gather returned, the result is yielded
OrchDispatchDone(run) == [run EXCEPT !.pc = "yielded"]

\* _dispatch_progress: gather re-raises the first exception of a callback
OrchDispatchRaised(run) ==
    [run EXCEPT !.pc = "raised", !.exc = "ObserverError"]

Registered == {k \in Observers : obsPc[k] # "unregistered"}

OrchInit ==
    /\ o_targets \in Strategies
    /\ \E cap \in 1..MaxCapacity : o_run = OrchNew(cap)
    /\ o_calls = <<>>
    /\ o_collected = <<>>
    /\ obsPc = [k \in Observers |-> "unregistered"]
    /\ o_seen = [k \in Observers |-> <<>>]

\* no orchestrator run
OrchIdle ==
    /\ o_targets = <<>>
    /\ o_run = OrchNew(1)
    /\ o_calls = <<>>
    /\ o_collected = <<>>
    /\ obsPc = [k \in Observers |-> "unregistered"]
    /\ o_seen = [k \in Observers |-> <<>>]

\* ScanOrchestrator.on_progress: callbacks are appended
OnProgress(k) ==
    /\ obsPc[k] = "unregistered"
    /\ \A j \in 1..(k - 1) : obsPc[j] # "unregistered"
    /\ o_run.pc \notin {"exhausted", "raised"}
    /\ obsPc' = [obsPc EXCEPT ![k] = "idle"]
    /\ UNCHANGED <<o_targets, o_run, o_calls, o_collected, o_seen>>
    /\ UNCHANGED notOrchVars

\* `async for result in orchestrator.execute_scan(strategy)`: next result
ConsumerPulls ==
    /\ o_run.pc \in {"init", "yielded"}
    /\ o_run' = OrchAnext(o_run, o_targets)
    /\ o_calls' = IF o_run'.pc = "probing"
                  THEN Append(o_calls, o_targets[o_run'.idx])
                  ELSE o_calls
    /\ UNCHANGED <<o_targets, o_collected, obsPc, o_seen>>
    /\ UNCHANGED notOrchVars

\* mutant: when a probe returns, the probe of the next target is started at
\* once, before the result is yielded
ProbeReturns_Prefetch ==
    /\ o_run.pc = "probing"
    /\ \E res \in ValidateResults(o_targets[o_run.idx]) :
          /\ o_run' = OrchProbeReturned(o_run, res, Cardinality(Registered))
          /\ o_collected' = IF o_run'.pc = "yielded"
                            THEN Append(o_collected, res)
                            ELSE o_collected
    /\ obsPc' = [k \in Observers |->
                    IF k \in Registered THEN "running" ELSE obsPc[k]]
    /\ o_calls' = IF o_run.idx < Len(o_targets)
                  THEN Append(o_calls, o_targets[o_run.idx + 1])
                  ELSE o_calls
    /\ UNCHANGED <<o_targets, o_seen>>
    /\ UNCHANGED notOrchVars

\* validator.validate(url) returns within the deadline
ProbeReturns ==
    /\ o_run.pc = "probing"
    /\ \E res \in ValidateResults(o_targets[o_run.idx]) :
          /\ o_run' = OrchProbeReturned(o_run, res, Cardinality(Registered))
          /\ o_collected' = IF o_run'.pc = "yielded"
                            THEN Append(o_collected, res)
                            ELSE o_collected
    /\ obsPc' = [k \in Observers |->
                    IF k \in Registered THEN "running" ELSE obsPc[k]]
    /\ UNCHANGED <<o_targets, o_calls, o_seen>>
    /\ UNCHANGED notOrchVars

\* the probe outlives the limiter's deadline
ProbeTimesOut ==
    /\ o_run.pc = "probing"
    /\ o_run' = OrchProbeTimedOut(o_run)
    /\ UNCHANGED <<o_targets, o_calls, o_collected, obsPc, o_seen>>
    /\ UNCHANGED notOrchVars

\* a progress callback handles the snapshot and returns; gather returns
\* when the last one has
ObserverReturns(k) ==
    /\ obsPc[k] = "running"
    /\ obsPc' = [obsPc EXCEPT ![k] = "done"]
    /\ o_seen' = [o_seen EXCEPT ![k] = Append(@, o_run.progress)]
    /\ IF o_run.pc = "dispatching"
          /\ \A j \in Observers \ {k} : obsPc[j] # "running"
       THEN /\ o_run' = OrchDispatchDone(o_run)
            /\ o_collected' = Append(o_collected, o_run.result)
       ELSE UNCHANGED <<o_run, o_collected>>
    /\ UNCHANGED <<o_targets, o_calls>>
    /\ UNCHANGED notOrchVars

\* a progress callback raises while handling the snapshot
ObserverRaises(k) ==
    /\ obsPc[k] = "running"
    /\ obsPc' = [obsPc EXCEPT ![k] = "raised"]
    /\ o_seen' = [o_seen EXCEPT ![k] = Append(@, o_run.progress)]
    /\ o_run' = IF o_run.pc = "dispatching"
                THEN OrchDispatchRaised(o_run) ELSE o_run
    /\ UNCHANGED <<o_targets, o_calls, o_collected>>
    /\ UNCHANGED notOrchVars

OrchStep ==
    \/ \E k \in Observers : OnProgress(k)
    \/ ConsumerPulls
    \/ ProbeReturns
    \/ ProbeTimesOut
    \/ \E k \in Observers : ObserverReturns(k)
    \/ \E k \in Observers : ObserverRaises(k)

(***************************************************************************)
(* ScanManager                                                             *)
(*                                                                         *)
(* ScanManager._lock is never held across a suspension point (start_scan,  *)
(* get_scan and cancel_scan do not await inside `async with self._lock`),  *)
(* so every acquisition succeeds at once and each locked section is part   *)
(* of one action.                                                          *)
(***************************************************************************)

Terminal == {"completed", "cancelled", "failed"}
TaskOver == {"finished", "cancelled"}

\* _safe_estimate_total: the estimate of the strategies start_scan can build
SafeEstimateTotal(targets) == EstimateTargetCount(targets)

\* ScanStartRequest, by what _build_strategy_from_request looks at:
\*   fields      the fields the mode requires are all present
\*   preset      "none", an id the preset loader has, or one it has not
\*   well_formed the strategy constructor accepts the values (ranges, ports,
\*               placeholder); for a preset, the values the preset holds
\*   size        the number of targets the described ranges hold (>= 1: a
\*               range has a start and an end, start <= end)
ScanModes == {"template", "multicast", "m3u_batch"}
PresetChoices == {"none", "known", "unknown"}
RequestShapes ==
    [mode : ScanModes, fields : BOOLEAN, preset : PresetChoices,
     well_formed : BOOLEAN, size : 1..MaxTargets]
\* one request for each combination of what its mode looks at: preset is
\* read in multicast mode only, fields not when a preset is named, the
\* values only when a constructor is reached
Requests ==
    {req \in RequestShapes :
        /\ req.mode = "m3u_batch" =>
              req.fields /\ req.preset = "none" /\ req.well_formed
        /\ req.mode = "template" => req.preset = "none"
        /\ req.preset # "none" => req.fields
        /\ (~req.fields \/ req.preset = "unknown") => req.well_formed
        /\ (~req.fields \/ req.preset = "unknown" \/ ~req.well_formed
              \/ req.mode = "m3u_batch") => req.size = 1}

\* outcomes of _build_strategy_from_request
Built(n) == [ok |-> TRUE, error |-> "none", targets |-> [i \in 1..n |-> i]]
Raised(error) == [ok |-> FALSE, error |-> error, targets |-> <<>>]

\* TemplateScanStrategy(...) / MulticastScanStrategy(...): ValueError for
\* values the constructor refuses
Construct(req) ==
    IF req.well_formed THEN Built(req.size) ELSE Raised("ValueError")

\* mutant: a request that cannot be built yields an empty strategy
BuildStrategyFromRequest_Lenient(req) ==
    IF req.mode \in {"template", "multicast"} /\ req.fields /\ req.well_formed
       /\ req.preset # "unknown"
    THEN Built(req.size)
    ELSE [ok |-> TRUE, error |-> "none", targets |-> <<>>]

\* ScanManager._build_strategy_from_request and _load_preset
BuildStrategyFromRequest(req) ==
    IF req.mode = "template"
    THEN IF ~req.fields THEN Raised("HTTP 422") ELSE Construct(req)
    ELSE IF req.mode = "multicast"
    THEN IF req.preset # "none"
         THEN IF req.preset = "unknown"
              THEN Raised("HTTP 404")
              ELSE Construct(req)
         ELSE IF ~req.fields THEN Raised("HTTP 422") ELSE Construct(req)
    ELSE Raised("HTTP 400")

\* a request whose strategy cannot be built: unsupported mode, missing
\* mode-specific fields, unknown preset, values a constructor refuses
Unbuildable(req) ==
    \/ req.mode \notin {"template", "multicast"}
    \/ req.mode = "template" /\ (~req.fields \/ ~req.well_formed)
    \/ req.mode = "multicast" /\ req.preset = "unknown"
    \/ req.mode = "multicast" /\ req.preset = "none" /\ ~req.fields
    \/ req.mode = "multicast" /\ req.preset # "unknown" /\ ~req.well_formed

\* `session.status = st`; trail keeps the successive values of status
SetStatus(sess, st) ==
    [sess EXCEPT !.status = st,
                 !.trail = IF st = sess.status THEN @ ELSE Append(@, st)]

\* ScanSession(...) as start_scan creates it, with its task scheduled
NewSession(targets) ==
    [status |-> "pending", trail |-> <<"pending">>, progress |-> 0,
     total |-> SafeEstimateTotal(targets), valid |-> 0, invalid |-> 0,
     completed_at |-> NoStamp, error |-> NoError, cancel_event |-> FALSE,
     task |-> "scheduled", must_cancel |-> FALSE,
     strategy |-> targets, run |-> OrchNew(DefaultMaxConcurrency)]

\* mutant: only valid results advance progress
HandleResult_ValidOnly(sess, res) ==
    IF res.is_valid
    THEN [sess EXCEPT !.progress = @ + 1, !.valid = @ + 1]
    ELSE [sess EXCEPT !.invalid = @ + 1]

\* ScanManager._handle_result
\* mutant: an invalid result is counted as valid as well
HandleResult_BothCounters(sess, res) ==
    IF res.is_valid
    THEN [sess EXCEPT !.progress = @ + 1, !.valid = @ + 1]
    ELSE [sess EXCEPT !.progress = @ + 1, !.valid = @ + 1, !.invalid = @ + 1]

HandleResult(sess, res) ==
    IF res.is_valid
    THEN [sess EXCEPT !.progress = @ + 1, !.valid = @ + 1]
    ELSE [sess EXCEPT !.progress = @ + 1, !.invalid = @ + 1]

\* datetime.now(timezone.utc): a time later than the session's last stamp
Now(sess) == sess.completed_at + 1

\* _run_scan: the `async for` asks execute_scan for the next result; the
\* task either suspends in the next probe or leaves the loop and completes
RunScanNext(sess) ==
    LET run == OrchAnext(sess.run, sess.strategy) IN
    IF run.pc = "exhausted"
    THEN [SetStatus(sess, "completed") EXCEPT
             !.run = run, !.completed_at = Now(sess), !.task = "finished"]
    ELSE [sess EXCEPT !.run = run, !.task = "awaiting"]

\* _run_scan from its first line to its first suspension point
RunScanStart(sess) ==
    RunScanNext([SetStatus(sess, "running") EXCEPT
                    !.run = OrchNew(DefaultMaxConcurrency)])

\* _run_scan: a result arrives; it is counted, the cancel flag is looked at
RunScanResult(sess, res) ==
    LET s1 == HandleResult([sess EXCEPT !.run = OrchProbeReturned(@, res, 0)],
                           res)
    IN IF s1.cancel_event
       THEN [SetStatus(s1, "cancelled") EXCEPT
                !.completed_at = Now(sess), !.task = "finished"]
       ELSE RunScanNext(s1)

\* _run_scan: `except Exception` after the orchestrator raised
RunScanFailed(sess, run, message) ==
    [SetStatus(sess, "failed") EXCEPT
        !.run = run, !.error = message,
        !.completed_at = Now(sess), !.task = "finished"]

\* mutant: CancelledError is handled by the `except Exception` branch
RunScanCancelled_AsFailure(sess) ==
    [SetStatus(sess, "failed") EXCEPT
        !.run = OrchProbeCancelled(@), !.error = "",
        !.completed_at = sess.completed_at + 1, !.task = "cancelled",
        !.must_cancel = FALSE]

\* mutant: the handler of CancelledError waits for something that never comes
RunScanCancelled_NeverEnds(sess) ==
    [SetStatus(sess, "cancelled") EXCEPT
        !.run = OrchProbeCancelled(@), !.task = "stuck",
        !.must_cancel = FALSE]

\* _run_scan: `except asyncio.CancelledError`, the probe it awaited aborted
RunScanCancelled(sess) ==
    [SetStatus(sess, "cancelled") EXCEPT
        !.run = OrchProbeCancelled(@),
        !.completed_at = Now(sess), !.task = "cancelled",
        !.must_cancel = FALSE]

\* mutant: cancel_scan never waits for the task
CancelMustWait_Never(sess) == FALSE

\* cancel_scan: `if session.task and not session.task.done()`
CancelMustWait(sess) == sess.task \notin TaskOver

\* mutant: cancel_scan clears the counters of the session
CancelLocked_ResetCounters(sess) ==
    SetStatus([sess EXCEPT !.cancel_event = TRUE, !.progress = 0,
                           !.valid = 0, !.invalid = 0], "cancelled")

\* cancel_scan: the lines under the lock
CancelLocked(sess) ==
    SetStatus([sess EXCEPT !.cancel_event = TRUE], "cancelled")

\* cancel_scan: the lines after the task is known to be over
CancelFinish(sess) == [sess EXCEPT !.completed_at = Now(sess)]

\* ScanStatusResponse of the get_scan route
StatusResponse(id, sess) ==
    [scan_id |-> id, status |-> sess.status,
     progress |-> sess.progress, total |-> sess.total,
     valid |-> sess.valid, invalid |-> sess.invalid,
     completed_at |-> sess.completed_at, error |-> sess.error]

\* what a caller holds when cancel_scan returns: the counters then
NoReturn == [progress |-> -1, probes |-> -1]
Returned(sess) == [progress |-> sess.progress, probes |-> sess.run.idx]

\* what a cancel_scan call finds when it takes the lock
NoCall == [status |-> "none", progress |-> -1]
Found(sess) == [status |-> sess.status, progress |-> sess.progress]

\* ScanManager.__init__
ManagerInit ==
    /\ sessions = <<>>
    /\ cancelWait = [id \in SessionIds |-> 0]
    /\ ncancels = 0
    /\ cancelReturn = [id \in SessionIds |-> NoReturn]
    /\ cancelCall = [id \in SessionIds |-> NoCall]
    /\ badRequests = 0

Known == DOMAIN sessions

\* what get_scan and cancel_scan raise for an id the table does not hold
ScanNotFoundError == [scan_id |-> 0, status |-> "ScanNotFoundError"]

\* ScanManager.get_scan: what the caller gets, shown as the route shows it
GetScanResult(id) ==
    IF id \in Known THEN StatusResponse(id, sessions[id])
                    ELSE ScanNotFoundError

\* mutant: the table holds the newest session only
AddSession_Replace(table, session) ==
    IF table = <<>> THEN <<session>> ELSE <<session, session>>

\* start_scan: self._sessions[session.scan_id] = session, under a fresh uuid4
AddSession(table, session) == Append(table, session)

\* ScanManager.start_scan
StartScan ==
    /\ Len(sessions) + badRequests < NumSessions
    /\ \E req \in Requests :
          LET built == BuildStrategyFromRequest(req) IN
          /\ badRequests' = IF Unbuildable(req) THEN badRequests + 1
                                                ELSE badRequests
          /\ sessions' = IF built.ok
                          THEN AddSession(sessions,
                                          NewSession(built.targets))
                          ELSE sessions
    /\ UNCHANGED <<cancelWait, ncancels, cancelReturn, cancelCall>>
    /\ UNCHANGED notMgrVars

\* ScanManager.get_scan: a read of the session table, ScanNotFoundError for
\* an unknown id
GetScan(id) ==
    /\ id \in Known => GetScanResult(id).scan_id = id
    /\ UNCHANGED mgrVars
    /\ UNCHANGED notMgrVars

\* ScanManager.cancel_scan up to `await session.task`, or to its return when
\* there is nothing to wait for; ScanNotFoundError for an unknown id
CancelScan(id) ==
    /\ ncancels < MaxCancels
    /\ ncancels' = ncancels + 1
    /\ UNCHANGED badRequests
    /\ IF id \notin Known
       THEN UNCHANGED <<sessions, cancelWait, cancelReturn, cancelCall>>
       ELSE LET s1 == CancelLocked(sessions[id]) IN
            /\ cancelCall' = [cancelCall EXCEPT ![id] =
                   IF @ = NoCall THEN Found(sessions[id]) ELSE @]
            /\ IF CancelMustWait(s1)
               THEN /\ sessions' = [sessions EXCEPT
                                      ![id] = [s1 EXCEPT !.must_cancel = TRUE]]
                    /\ cancelWait' = [cancelWait EXCEPT ![id] = @ + 1]
                    /\ UNCHANGED cancelReturn
               ELSE /\ sessions' = [sessions EXCEPT ![id] = CancelFinish(s1)]
                    /\ cancelReturn' = [cancelReturn EXCEPT
                                           ![id] = Returned(sessions'[id])]
                    /\ UNCHANGED cancelWait
    /\ UNCHANGED notMgrVars

\* cancel_scan after `await session.task`: the task is over
CancelScanReturns(id) ==
    /\ id \in Known
    /\ cancelWait[id] > 0
    /\ sessions[id].task \in TaskOver
    /\ sessions' = [sessions EXCEPT ![id] = CancelFinish(@)]
    /\ cancelWait' = [cancelWait EXCEPT ![id] = @ - 1]
    /\ cancelReturn' = [cancelReturn EXCEPT ![id] = Returned(sessions'[id])]
    /\ UNCHANGED <<ncancels, cancelCall, badRequests>>
    /\ UNCHANGED notMgrVars

\* the event loop runs the task for the first time
TaskStarts(id) ==
    /\ id \in Known
    /\ sessions[id].task = "scheduled" /\ ~sessions[id].must_cancel
    /\ sessions' = [sessions EXCEPT ![id] = RunScanStart(@)]
    /\ UNCHANGED <<cancelWait, ncancels, cancelReturn, cancelCall, badRequests>>
    /\ UNCHANGED notMgrVars

\* the probe the task awaits returns a result within the deadline
TaskProbeReturns(id) ==
    /\ id \in Known
    /\ sessions[id].task = "awaiting" /\ ~sessions[id].must_cancel
    /\ \E res \in ValidateResults(
                    sessions[id].strategy[sessions[id].run.idx]) :
          sessions' = [sessions EXCEPT ![id] = RunScanResult(@, res)]
    /\ UNCHANGED <<cancelWait, ncancels, cancelReturn, cancelCall, badRequests>>
    /\ UNCHANGED notMgrVars

\* mutant: one orchestrator for all sessions, its exception ends every scan
TaskProbeTimesOut_Shared(id) ==
    /\ id \in Known
    /\ sessions[id].task = "awaiting" /\ ~sessions[id].must_cancel
    /\ sessions' = [o \in DOMAIN sessions |->
          IF sessions[o].task = "awaiting"
          THEN RunScanFailed(sessions[o], OrchProbeTimedOut(sessions[o].run),
                             TimeoutErrorStr)
          ELSE sessions[o]]
    /\ UNCHANGED <<cancelWait, ncancels, cancelReturn, cancelCall, badRequests>>
    /\ UNCHANGED notMgrVars

\* the probe the task awaits outlives the limiter's deadline
TaskProbeTimesOut(id) ==
    /\ id \in Known
    /\ sessions[id].task = "awaiting" /\ ~sessions[id].must_cancel
    /\ sessions' = [sessions EXCEPT ![id] =
          RunScanFailed(@, OrchProbeTimedOut(@.run), TimeoutErrorStr)]
    /\ UNCHANGED <<cancelWait, ncancels, cancelReturn, cancelCall, badRequests>>
    /\ UNCHANGED notMgrVars

\* the event loop resumes a task whose cancellation was requested:
\* CancelledError is raised at its suspension point; a task that never ran
\* ends without executing a line of _run_scan
TaskCancelled(id) ==
    /\ id \in Known
    /\ sessions[id].must_cancel
    /\ sessions' = [sessions EXCEPT ![id] =
          IF @.task = "scheduled"
          THEN [@ EXCEPT !.task = "cancelled", !.must_cancel = FALSE]
          ELSE RunScanCancelled(@)]
    /\ UNCHANGED <<cancelWait, ncancels, cancelReturn, cancelCall, badRequests>>
    /\ UNCHANGED notMgrVars

ManagerStep ==
    \/ StartScan
    \/ \E id \in SessionIds : GetScan(id)
    \/ \E id \in SessionIds : CancelScan(id)
    \/ \E id \in SessionIds : CancelScanReturns(id)
    \/ \E id \in SessionIds : TaskStarts(id)
    \/ \E id \in SessionIds : TaskProbeReturns(id)
    \/ \E id \in SessionIds : TaskProbeTimesOut(id)
    \/ \E id \in SessionIds : TaskCancelled(id)

\* no manager
ManagerIdle == ManagerInit

(***************************************************************************)
(* SmartPortScanner                                                        *)
(*                                                                         *)
(* scan() is an async generator pulled by one consumer.  It runs up to its *)
(* next `await validator.validate(...)`, and from the return of that call  *)
(* up to the next one or to a `yield`.                                     *)
(***************************************************************************)

\* multicast addresses (239.3.1.1, 239.3.1.2) and ports of the tests
McastAddresses == {1, 2}
PortNumbers == {8000, 8004}

\* sequences over S of length 1..n
SeqsUpTo(S, n) == UNION {[1..k -> S] : k \in 1..n}

\* MulticastScanStrategy as the scanner sees it: the addresses its ranges
\* enumerate (ranges may overlap or be given in any order) and its ports (as
\* given: unsorted, possibly repeated); both are non-empty
SmartStrategies ==
    [ips : SeqsUpTo(McastAddresses, MaxAddresses),
     ports : SeqsUpTo(PortNumbers, MaxPorts)]

\* discovery_timeout: None, 0 or a number of seconds
DiscoveryTimeouts == {NoTimeout, 0, DefaultDiscoveryTimeout}

\* sorted(ports) of a set of ports
RECURSIVE Sorted(_)
Sorted(S) ==
    IF S = {} THEN <<>>
    ELSE LET m == CHOOSE x \in S : \A y \in S : x <= y
         IN <<m>> \o Sorted(S \ {m})

Tail2(seq) == IF Len(seq) = 0 THEN <<>> ELSE Tail(seq)
Range(seq) == {seq[n] : n \in 1..Len(seq)}

\* validator.validate(url) / validator.validate(url, timeout=t) as the
\* validator receives it
ValidateCall(ip, port, timeout) ==
    [ip |-> ip, port |-> port,
     timeout |-> IF timeout = NoTimeout THEN ValidatorDefaultTimeout
                                        ELSE timeout]

\* StreamValidationResult of a probe
ProbeResult(call, valid) ==
    [ip |-> call.ip, port |-> call.port, is_valid |-> valid]

\* mutant: a discovery timeout of 0 is passed on as it is
DiscoveryTimeoutArg_Always(dt) == dt

\* _discover_ports_on_first_ip:
\* `self._discovery_timeout if self._discovery_timeout else None`
DiscoveryTimeoutArg(dt) == IF dt # NoTimeout /\ dt # 0 THEN dt ELSE NoTimeout

\* mutant: the follow-up scan covers every address, the first one again
FollowUpAddresses_All(ip_addresses) == ip_addresses

\* scan: `first_ip, *remaining_ips = ip_addresses`
FollowUpAddresses(ip_addresses) == Tail2(ip_addresses)

\* the generator before its first step
SmartNew ==
    [pc |-> "init", ips |-> <<>>, ports |-> <<>>, i |-> 0, j |-> 0,
     remaining |-> <<>>, discovered |-> {}, results |-> <<>>, k |-> 0]

\* _scan_ips(ip_addresses, ports): enters the loops and calls validate for
\* the first pair, or ends when a loop is empty
ScanIpsStart(gen, ips, ports) ==
    IF Len(ips) = 0 \/ Len(ports) = 0
    THEN [gen EXCEPT !.pc = "done"]
    ELSE [gen EXCEPT !.pc = "scan", !.ips = ips, !.ports = ports,
                     !.i = 1, !.j = 1]

\* _scan_ips: the loops advance to the next pair, or end
ScanIpsNext(gen) ==
    IF gen.j < Len(gen.ports) THEN [gen EXCEPT !.j = @ + 1]
    ELSE IF gen.i < Len(gen.ips) THEN [gen EXCEPT !.i = @ + 1, !.j = 1]
    ELSE [gen EXCEPT !.pc = "done"]

\* the validate call the generator is suspended in
PendingCall(gen) ==
    IF gen.pc = "discover"
    THEN ValidateCall(sp_strategy.ips[1], sp_strategy.ports[gen.j],
                      DiscoveryTimeoutArg(sp_discovery_timeout))
    ELSE ValidateCall(gen.ips[gen.i], gen.ports[gen.j], NoTimeout)

\* mutant: the follow-up after discovery scans the lowest discovered port
FollowUpPorts_LowestOnly(discovered) ==
    IF discovered = {} THEN sp_strategy.ports
    ELSE <<Sorted(discovered)[1]>>

\* mutant: the follow-up after discovery scans every configured port
FollowUpPorts_All(discovered) == sp_strategy.ports

\* scan: the ports probed on the remaining addresses after discovery
FollowUpPorts(discovered) ==
    IF discovered = {} THEN sp_strategy.ports ELSE Sorted(discovered)

\* a scanner under test
SmartInit ==
    /\ sp_strategy \in SmartStrategies
    /\ sp_enable_smart_scan \in BOOLEAN
    /\ sp_discovery_timeout \in DiscoveryTimeouts
    /\ sp_gen = SmartNew
    /\ sp_calls = <<>>
    /\ sp_emitted = <<>>

\* no scanner
SmartIdle ==
    /\ sp_strategy = [ips |-> <<1>>, ports |-> <<8000>>]
    /\ sp_enable_smart_scan = TRUE
    /\ sp_discovery_timeout = DefaultDiscoveryTimeout
    /\ sp_gen = SmartNew
    /\ sp_calls = <<>>
    /\ sp_emitted = <<>>

\* the generator reaches a validate call: the validator records it
SmartSuspend(gen) ==
    /\ sp_gen' = gen
    /\ sp_calls' = IF gen.pc \in {"discover", "scan"}
                   THEN Append(sp_calls, PendingCall(gen))
                   ELSE sp_calls

\* the consumer's first pull: scan() from its first line to the first
\* validate call
SmartScanStart ==
    /\ sp_gen.pc = "init"
    /\ LET ip_addresses == sp_strategy.ips IN
       IF Len(ip_addresses) = 0
       THEN SmartSuspend([sp_gen EXCEPT !.pc = "done"])
       ELSE IF ~sp_enable_smart_scan \/ Len(ip_addresses) = 1
       THEN SmartSuspend(ScanIpsStart(sp_gen, ip_addresses,
                                      sp_strategy.ports))
       ELSE SmartSuspend([sp_gen EXCEPT
                            !.pc = "discover", !.j = 1,
                            !.remaining = FollowUpAddresses(ip_addresses)])
    /\ UNCHANGED <<sp_strategy, sp_enable_smart_scan, sp_discovery_timeout,
                   sp_emitted>>
    /\ UNCHANGED notSmartVars

\* a discovery probe returns: the result is kept, a valid port is added;
\* after the last port the first discovery result is yielded
SmartDiscoveryReturns ==
    /\ sp_gen.pc = "discover"
    /\ \E valid \in BOOLEAN :
          LET call == sp_calls[Len(sp_calls)]
              g1 == [sp_gen EXCEPT
                       !.results = Append(@, ProbeResult(call, valid)),
                       !.discovered = IF valid THEN @ \cup {call.port} ELSE @]
          IN IF g1.j < Len(sp_strategy.ports)
             THEN /\ SmartSuspend([g1 EXCEPT !.j = @ + 1])
                  /\ UNCHANGED sp_emitted
             ELSE /\ SmartSuspend([g1 EXCEPT !.pc = "emit", !.k = 1])
                  /\ sp_emitted' = Append(sp_emitted, g1.results[1])
    /\ UNCHANGED <<sp_strategy, sp_enable_smart_scan, sp_discovery_timeout>>
    /\ UNCHANGED notSmartVars

\* the consumer pulls while discovery results are being yielded: the next
\* one, or after the last the scan of the remaining addresses begins
SmartEmitNext ==
    /\ sp_gen.pc = "emit"
    /\ IF sp_gen.k < Len(sp_gen.results)
       THEN /\ SmartSuspend([sp_gen EXCEPT !.k = @ + 1])
            /\ sp_emitted' = Append(sp_emitted, sp_gen.results[sp_gen.k + 1])
       ELSE /\ UNCHANGED sp_emitted
            /\ IF Len(sp_gen.remaining) = 0
               THEN SmartSuspend([sp_gen EXCEPT !.pc = "done"])
               ELSE SmartSuspend(
                       ScanIpsStart(sp_gen, sp_gen.remaining,
                                    FollowUpPorts(sp_gen.discovered)))
    /\ UNCHANGED <<sp_strategy, sp_enable_smart_scan, sp_discovery_timeout>>
    /\ UNCHANGED notSmartVars

\* _scan_ips: `yield await self._validator.validate(url)`, the probe returns
\* and its result is yielded
SmartScanReturns ==
    /\ sp_gen.pc = "scan"
    /\ \E valid \in BOOLEAN :
          sp_emitted' = Append(sp_emitted,
                               ProbeResult(sp_calls[Len(sp_calls)], valid))
    /\ sp_gen' = [sp_gen EXCEPT !.pc = "yield"]
    /\ UNCHANGED <<sp_strategy, sp_enable_smart_scan, sp_discovery_timeout,
                   sp_calls>>
    /\ UNCHANGED notSmartVars

\* the consumer pulls after a scan result: the next pair is probed, or the
\* generator ends
SmartScanNext ==
    /\ sp_gen.pc = "yield"
    /\ SmartSuspend(LET g == ScanIpsNext(sp_gen) IN
                    IF g.pc = "done" THEN g ELSE [g EXCEPT !.pc = "scan"])
    /\ UNCHANGED <<sp_strategy, sp_enable_smart_scan, sp_discovery_timeout,
                   sp_emitted>>
    /\ UNCHANGED notSmartVars

SmartStep ==
    \/ SmartScanStart
    \/ SmartDiscoveryReturns
    \/ SmartEmitNext
    \/ SmartScanReturns
    \/ SmartScanNext

\* the network of a run: whether a probe of an address and port validates
StreamMaps == [McastAddresses \X PortNumbers -> BOOLEAN]

\* no stream anywhere
StreamsIdle == sp_streams = [pair \in McastAddresses \X PortNumbers |-> FALSE]

\* every result the validator has returned is what the network gives for
\* its address and port
StableResults ==
    \A r \in Range(sp_emitted) \cup Range(sp_gen.results) :
        r.is_valid = sp_streams[<<r.ip, r.port>>]

\* the scanner on a network whose streams do not change during the run
StableStep ==
    \/ SmartScanStart
    \/ SmartDiscoveryReturns /\ StableResults'
    \/ SmartEmitNext
    \/ SmartScanReturns /\ StableResults'
    \/ SmartScanNext

(***************************************************************************)
(* StreamValidator                                                         *)
(*                                                                         *)
(* validate() runs to its return, or to run_in_executor, where the worker  *)
(* thread calls ffmpeg.probe; the second step is the outcome of that call. *)
(***************************************************************************)

\* urls by their scheme as written (urlparse(url).scheme before .lower());
\* "" is a url without scheme
SchemesWritten ==
    {"", "http", "HTTP", "https", "rtsp", "rtp", "RTP", "udp", "ftp", "mms"}

\* the url arguments: parses is FALSE for a url urlparse refuses with
\* ValueError (a "[" without "]" in the host, a bracketed host that is no
\* address, characters that NFKC-normalise to a delimiter)
UrlArguments == [scheme : SchemesWritten, parses : BOOLEAN]

\* str.lower() on the schemes above
LowerScheme(scheme) ==
    IF scheme = "HTTP" THEN "http"
    ELSE IF scheme = "RTP" THEN "rtp"
    ELSE scheme

\* StreamValidator._detect_protocol; None is "none"
DetectProtocol(url) ==
    IF url.scheme # "" THEN LowerScheme(url.scheme) ELSE "none"

\* StreamValidator._validators: the schemes with a validator
SupportedProtocols == {"http", "https", "rtsp", "rtp", "udp"}

\* ErrorCategory
ErrorCategories ==
    {"network_unreachable", "timeout", "no_video_stream",
     "unsupported_codec", "unsupported_protocol", "multicast_not_supported"}

\* the phrases _categorize_error looks for
Phrases ==
    {"timed out", "timeout", "connection refused", "no route",
     "failed to resolve", "network unreachable", "multicast", "codec",
     "unsupported"}

\* diagnostic text: the phrases it contains, written in lower case or in
\* upper case, among other words
DiagnosticTexts ==
    {[phrases |-> P, upper |-> u] :
        P \in {Q \in SUBSET Phrases : Cardinality(Q) <= MaxPhrases},
        u \in BOOLEAN}

\* str.lower()
LowerText(text) == [text EXCEPT !.upper = FALSE]

\* `phrase in text` for a lower-case phrase: the match is case-sensitive
Contains(text, phrase) == ~text.upper /\ phrase \in text.phrases

\* mutant: the text is matched as written
CategorizeError_CaseSensitive(stderr, protocol) ==
    IF Contains(stderr, "timed out") \/ Contains(stderr, "timeout")
    THEN "timeout"
    ELSE IF \E keyword \in {"connection refused", "no route",
                            "failed to resolve", "network unreachable"} :
               Contains(stderr, keyword)
    THEN "network_unreachable"
    ELSE IF protocol = "rtp" /\ Contains(stderr, "multicast")
    THEN "multicast_not_supported"
    ELSE IF Contains(stderr, "codec") /\ Contains(stderr, "unsupported")
    THEN "unsupported_codec"
    ELSE "network_unreachable"

\* mutant: the multicast rule is tried before the network rule
CategorizeError_MulticastFirst(stderr, protocol) ==
    LET stderr_lower == LowerText(stderr) IN
    IF Contains(stderr_lower, "timed out") \/ Contains(stderr_lower, "timeout")
    THEN "timeout"
    ELSE IF protocol = "rtp" /\ Contains(stderr_lower, "multicast")
    THEN "multicast_not_supported"
    ELSE IF \E keyword \in {"connection refused", "no route",
                            "failed to resolve", "network unreachable"} :
               Contains(stderr_lower, keyword)
    THEN "network_unreachable"
    ELSE IF Contains(stderr_lower, "codec")
            /\ Contains(stderr_lower, "unsupported")
    THEN "unsupported_codec"
    ELSE "network_unreachable"

\* StreamValidator._categorize_error
CategorizeError(stderr, protocol) ==
    LET stderr_lower == LowerText(stderr) IN
    IF Contains(stderr_lower, "timed out") \/ Contains(stderr_lower, "timeout")
    THEN "timeout"
    ELSE IF \E keyword \in {"connection refused", "no route",
                            "failed to resolve", "network unreachable"} :
               Contains(stderr_lower, keyword)
    THEN "network_unreachable"
    ELSE IF protocol = "rtp" /\ Contains(stderr_lower, "multicast")
    THEN "multicast_not_supported"
    ELSE IF Contains(stderr_lower, "codec")
            /\ Contains(stderr_lower, "unsupported")
    THEN "unsupported_codec"
    ELSE "network_unreachable"

\* StreamValidationResult(...); error_category None is "none"
ValidationResult(url, protocol, valid, category) ==
    [url |-> url, protocol |-> protocol, is_valid |-> valid,
     error_category |-> category]

\* what ffmpeg.probe can do: return metadata whose "streams" is a list of
\* streams (by codec_type) or something that is not a list, or raise, the
\* diagnostic text being the exception's stderr or its str()
StreamLists ==
    {<<>>} \cup UNION {[1..n -> {"video", "audio", "data"}] :
                          n \in 1..MaxStreams}
NoText == [phrases |-> {}, upper |-> FALSE]
ProbeOutcomes ==
    {[kind |-> "metadata", is_list |-> TRUE, streams |-> sl,
      text |-> NoText] : sl \in StreamLists}
    \cup {[kind |-> "metadata", is_list |-> FALSE, streams |-> <<>>,
           text |-> NoText]}
    \cup {[kind |-> k, is_list |-> FALSE, streams |-> <<>>, text |-> t] :
            k \in {"ffmpeg.Error", "Exception"}, t \in DiagnosticTexts}
NoOutcome ==
    [kind |-> "none", is_list |-> FALSE, streams |-> <<>>, text |-> NoText]

\* mutant: under udp an audio stream is enough
ParseProbeResult_UdpAudio(url, protocol, probe) ==
    LET streams_list == IF ~probe.is_list THEN <<>> ELSE probe.streams
        wanted == IF protocol = "udp" THEN {"video", "audio"} ELSE {"video"}
    IN IF ~\E n \in 1..Len(streams_list) : streams_list[n] \in wanted
       THEN ValidationResult(url, protocol, FALSE, "no_video_stream")
       ELSE ValidationResult(url, protocol, TRUE, "none")

\* mutant: any stream makes the result valid
ParseProbeResult_AnyStream(url, protocol, probe) ==
    LET streams_list == IF ~probe.is_list THEN <<>> ELSE probe.streams
    IN IF Len(streams_list) = 0
       THEN ValidationResult(url, protocol, FALSE, "no_video_stream")
       ELSE ValidationResult(url, protocol, TRUE, "none")

\* StreamValidator._parse_probe_result
ParseProbeResult(url, protocol, probe) ==
    LET streams_list == IF ~probe.is_list THEN <<>> ELSE probe.streams
    IN IF ~\E n \in 1..Len(streams_list) : streams_list[n] = "video"
       THEN ValidationResult(url, protocol, FALSE, "no_video_stream")
       ELSE ValidationResult(url, protocol, TRUE, "none")

\* StreamValidator._handle_ffmpeg_error
HandleFfmpegError(url, protocol, stderr) ==
    ValidationResult(url, protocol, FALSE, CategorizeError(stderr, protocol))

\* _validate_http/_rtsp/_rtp/_udp: the arguments of _probe_with_ffmpeg; the
\* https validator is _validate_http, which probes as "http"
ProbeArgs(protocol, timeout) ==
    IF protocol \in {"http", "https"}
    THEN [protocol |-> "http", timeout |-> timeout, options |-> "none"]
    ELSE IF protocol = "rtsp"
    THEN [protocol |-> "rtsp", timeout |-> timeout, options |-> "tcp"]
    ELSE IF protocol = "rtp"
    THEN [protocol |-> "rtp",
          timeout |-> IF timeout >= RtpTimeout THEN timeout ELSE RtpTimeout,
          options |-> "10M"]
    ELSE [protocol |-> "udp", timeout |-> timeout, options |-> "5M"]

\* mutant: the probe is made whether or not ffmpeg is installed
MustNotProbe_SchemeOnly(protocol, installed) ==
    protocol \notin SupportedProtocols

\* validate: the two early returns
MustNotProbe(protocol, installed) ==
    protocol \notin SupportedProtocols \/ ~installed

\* a validator about to be called
ValidatorInit ==
    /\ v_url \in UrlArguments
    /\ v_timeout \in {5, 30}
    /\ v_installed \in BOOLEAN
    /\ v_pc = "called"
    /\ v_probes = <<>>
    /\ v_outcome = NoOutcome
    /\ v_result = ValidationResult(v_url, "none", FALSE, "none")

\* no validator
ValidatorIdle ==
    /\ v_url = [scheme |-> "http", parses |-> TRUE]
    /\ v_timeout = ValidatorDefaultTimeout
    /\ v_installed = TRUE
    /\ v_pc = "called"
    /\ v_probes = <<>>
    /\ v_outcome = NoOutcome
    /\ v_result = ValidationResult(v_url, "none", FALSE, "none")

\* _detect_protocol: urlparse(url) raises ValueError, outside any try
UrlParseRaises(url) == ~url.parses

\* StreamValidator.validate up to its early return, to run_in_executor, or
\* to the ValueError of urlparse, which validate does not catch
Validate ==
    /\ v_pc = "called"
    /\ LET protocol == DetectProtocol(v_url) IN
       IF UrlParseRaises(v_url)
       THEN /\ v_pc' = "raised"
            /\ UNCHANGED <<v_probes, v_result>>
       ELSE IF MustNotProbe(protocol, v_installed)
       THEN /\ v_result' = ValidationResult(
                              v_url,
                              IF protocol \in SupportedProtocols
                              THEN protocol
                              ELSE IF protocol = "none" THEN "unknown"
                              ELSE protocol,
                              FALSE, "unsupported_protocol")
            /\ v_pc' = "returned"
            /\ UNCHANGED v_probes
       ELSE /\ v_probes' = Append(v_probes, ProbeArgs(protocol, v_timeout))
            /\ v_pc' = "probing"
            /\ UNCHANGED v_result
    /\ UNCHANGED <<v_url, v_timeout, v_installed, v_outcome>>
    /\ UNCHANGED notValVars

\* _probe_with_ffmpeg: ffmpeg.probe returns metadata, which is parsed
ProbeReturnsMetadata ==
    /\ v_pc = "probing"
    /\ \E probe \in {o \in ProbeOutcomes : o.kind = "metadata"} :
          /\ v_outcome' = probe
          /\ v_result' = ParseProbeResult(v_url, v_probes[1].protocol, probe)
    /\ v_pc' = "returned"
    /\ UNCHANGED <<v_url, v_timeout, v_installed, v_probes>>
    /\ UNCHANGED notValVars

\* _probe_with_ffmpeg: ffmpeg.probe raises; `except Exception` turns the
\* diagnostic text into a result
ProbeRaises ==
    /\ v_pc = "probing"
    /\ \E exc \in {o \in ProbeOutcomes : o.kind # "metadata"} :
          /\ v_outcome' = exc
          /\ v_result' = HandleFfmpegError(v_url, v_probes[1].protocol,
                                           exc.text)
    /\ v_pc' = "returned"
    /\ UNCHANGED <<v_url, v_timeout, v_installed, v_probes>>
    /\ UNCHANGED notValVars

ValidatorStep ==
    \/ Validate
    \/ ProbeReturnsMetadata
    \/ ProbeRaises

(***************************************************************************)
(* TemplateScanStrategy and MulticastScanStrategy                          *)
(***************************************************************************)

\* AddressValueError of ipaddress.IPv4Address
NoAddress == [hi |-> -1, lo |-> -1]

\* ipaddress.IPv4Address(text), the text given by its dot-separated decimal
\* fields: the 32-bit address, kept as its two 16-bit halves
IPv4Address(text) ==
    IF Len(text) = 4 /\ \A i \in 1..4 : text[i] \in 0..255
    THEN [hi |-> text[1] * 256 + text[2], lo |-> text[3] * 256 + text[4]]
    ELSE NoAddress

\* int(a) <= int(b)
AddrLE(a, b) == a.hi < b.hi \/ (a.hi = b.hi /\ a.lo <= b.lo)

\* ipaddress.IPv4Address(int(a) + offset)
AddrPlus(a, offset) ==
    [hi |-> a.hi + (a.lo + offset) \div 65536, lo |-> (a.lo + offset) % 65536]

\* the decimal fields of an address
Fields(ip) == <<ip.hi \div 256, ip.hi % 256, ip.lo \div 256, ip.lo % 256>>

\* str(ip)
IPv4Str(ip) ==
    ToString(Fields(ip)[1]) \o "." \o ToString(Fields(ip)[2]) \o "."
        \o ToString(Fields(ip)[3]) \o "." \o ToString(Fields(ip)[4])

\* ip in network, the network given by its first and last address
InNetwork(ip, net) ==
    AddrLE(IPv4Address(net[1]), ip) /\ AddrLE(ip, IPv4Address(net[2]))

\* ipaddress: the networks IPv4Address.is_private tests
PrivateNetworks ==
    { << <<0, 0, 0, 0>>, <<0, 255, 255, 255>> >>,
      << <<10, 0, 0, 0>>, <<10, 255, 255, 255>> >>,
      << <<127, 0, 0, 0>>, <<127, 255, 255, 255>> >>,
      << <<169, 254, 0, 0>>, <<169, 254, 255, 255>> >>,
      << <<172, 16, 0, 0>>, <<172, 31, 255, 255>> >>,
      << <<192, 0, 0, 0>>, <<192, 0, 0, 7>> >>,
      << <<192, 0, 0, 170>>, <<192, 0, 0, 171>> >>,
      << <<192, 0, 2, 0>>, <<192, 0, 2, 255>> >>,
      << <<192, 168, 0, 0>>, <<192, 168, 255, 255>> >>,
      << <<198, 18, 0, 0>>, <<198, 19, 255, 255>> >>,
      << <<198, 51, 100, 0>>, <<198, 51, 100, 255>> >>,
      << <<203, 0, 113, 0>>, <<203, 0, 113, 255>> >>,
      << <<240, 0, 0, 0>>, <<255, 255, 255, 255>> >> }

\* ip.is_private
IsPrivate(ip) == \E net \in PrivateNetworks : InNetwork(ip, net)

\* ip.is_multicast: 224.0.0.0/4
IsMulticast(ip) == InNetwork(ip, << <<224, 0, 0, 0>>, <<239, 255, 255, 255>> >>)

\* the texts of the addresses text, text + 1, ..
TextsFrom(text) ==
    {Fields(AddrPlus(IPv4Address(text), k)) : k \in 0..MaxSpan}

\* TemplateScanStrategy._PLACEHOLDER
Placeholder == "{ip}"

\* base_url arguments, each cut at its placeholders: one placeholder, none,
\* two
TemplatePatterns ==
    { <<"http://", Placeholder, ":8080/live">>,
      <<"http://host/live">>,
      <<"http://", Placeholder, "/", Placeholder>> }

\* (start_ip, end_ip) arguments: short ranges across a carry inside 10/8 and
\* across the end of 192.168/16, either order; _MAX_RANGE addresses and one
\* more; texts that are no address
TemplateRanges ==
    (TextsFrom(<<10, 0, 255, 254>>) \X TextsFrom(<<10, 0, 255, 254>>))
    \cup (TextsFrom(<<192, 168, 255, 254>>)
            \X TextsFrom(<<192, 168, 255, 254>>))
    \cup { << <<10, 0, 0, 0>>,
              Fields(AddrPlus(IPv4Address(<<10, 0, 0, 0>>), n)) >> :
                n \in {TemplateMaxRange - 1, TemplateMaxRange} }
    \cup { << <<10, 0, 0, 256>>, <<10, 0, 0, 1>> >>,
           << <<10, 0, 0, 1>>, <<10, 0, 0>> >> }

\* TemplateScanStrategy(base_url, start_ip, end_ip) calls
TemplateArgs ==
    {[class |-> "template", base_url |-> b, start_ip |-> r[1],
      end_ip |-> r[2]] : b \in TemplatePatterns, r \in TemplateRanges}

\* the concatenation of the pieces of a string
RECURSIVE Join(_)
Join(pieces) ==
    IF pieces = <<>> THEN "" ELSE Head(pieces) \o Join(Tail(pieces))

\* base_url.replace(_PLACEHOLDER, text): every occurrence is replaced
Replace(base_url, text) ==
    Join([i \in DOMAIN base_url |->
            IF base_url[i] = Placeholder THEN text ELSE base_url[i]])

\* MulticastScanStrategy._count_ips; the count in _generate_ip_range
CountIps(start, end) == (end.hi - start.hi) * 65536 + (end.lo - start.lo) + 1

\* mutant: the range stops one address early
GenerateIpRange_OffByOne(start, end) ==
    [k \in 1..(CountIps(start, end) - 1) |-> AddrPlus(start, k - 1)]

\* TemplateScanStrategy._generate_ip_range; MulticastScanStrategy._iterate_range
GenerateIpRange(start, end) ==
    [k \in 1..CountIps(start, end) |-> AddrPlus(start, k - 1)]

\* mutant: a range of _MAX_RANGE addresses is refused too
ExceedsMaxRange_AtCap(count) == count >= TemplateMaxRange

\* TemplateScanStrategy.__init__: self._count > self._MAX_RANGE
ExceedsMaxRange(count) == count > TemplateMaxRange

\* TemplateScanStrategy.__init__: the fields it sets, or the error it raises
TemplateNew(base_url, start_ip, end_ip) ==
    LET start == IPv4Address(start_ip)
        end == IPv4Address(end_ip)
        ips == GenerateIpRange(start, end)
    IN IF ~\E i \in DOMAIN base_url : base_url[i] = Placeholder
       THEN Raised("ValueError")
       ELSE IF start = NoAddress \/ end = NoAddress
       THEN Raised("AddressValueError")
       ELSE IF ~AddrLE(start, end)
       THEN Raised("ValueError")
       ELSE IF ~\A k \in DOMAIN ips : IsPrivate(ips[k])
       THEN Raised("ValueError")
       ELSE IF ExceedsMaxRange(Len(ips))
       THEN Raised("ValueError")
       ELSE [ok |-> TRUE, base_url |-> base_url, ip_addresses |-> ips,
             count |-> Len(ips)]

\* TemplateScanStrategy.estimate_target_count
TemplateEstimateTargetCount(self) == self.count

\* protocol arguments of MulticastScanStrategy
McastProtocols == {"udp", "RTP", "http"}

\* range definitions, each cut at its "-": a range, single addresses, ranges
\* with an endpoint outside 224.0.0.0/4, an inverted range, a text that is no
\* address, a text with two "-"
RangeDefinitions ==
    { << <<224, 0, 0, 0>>,
         Fields(AddrPlus(IPv4Address(<<224, 0, 0, 0>>), MaxSpan - 1)) >>,
      << <<224, 0, 0, 1>> >>,
      << <<239, 255, 255, 255>> >>,
      << <<223, 255, 255, 255>>, <<224, 0, 0, 0>> >>,
      << <<239, 255, 255, 255>>, <<240, 0, 0, 0>> >>,
      << <<224, 0, 0, 1>>, <<224, 0, 0, 0>> >>,
      << <<224, 0, 0>> >>,
      << <<224, 0, 0, 0>>, <<224, 0, 0, 1>>, <<224, 0, 0, 2>> >> }

\* port arguments
PortArgs == {0, 1, 65535, 65536}

\* MulticastScanStrategy(protocol=, ip_ranges=, ports=) calls
MulticastArgs ==
    [class : {"multicast"}, protocol : McastProtocols,
     ip_ranges : {<<>>} \cup SeqsUpTo(RangeDefinitions, MaxRanges),
     ports : {<<>>} \cup SeqsUpTo(PortArgs, MaxPortArgs)]

\* mutant: only the start of a range is tested
BothMulticast_StartOnly(start, end) == IsMulticast(start)

\* MulticastScanStrategy._parse_range: start.is_multicast and end.is_multicast
BothMulticast(start, end) == IsMulticast(start) /\ IsMulticast(end)

\* MulticastScanStrategy._parse_range; split("-", 1) leaves a second "-" in
\* the end text, which is then no address
ParseRange(range_definition) ==
    LET start == IPv4Address(range_definition[1])
        end == IF Len(range_definition) = 1 THEN start
               ELSE IF Len(range_definition) = 2
               THEN IPv4Address(range_definition[2])
               ELSE NoAddress
    IN IF start = NoAddress \/ end = NoAddress
       THEN Raised("ValueError")
       ELSE IF ~AddrLE(start, end)
       THEN Raised("ValueError")
       ELSE IF ~BothMulticast(start, end)
       THEN Raised("ValueError")
       ELSE [ok |-> TRUE, start |-> start, end |-> end]

\* MulticastScanStrategy._validate_port accepts the port
ValidatePort(port) == 1 <= port /\ port <= 65535

\* MulticastScanStrategy.__init__: the fields it sets, or the error it raises
MulticastNew(protocol, ip_ranges, ports) ==
    LET parsed == [i \in DOMAIN ip_ranges |-> ParseRange(ip_ranges[i])]
    IN IF LowerScheme(protocol) \notin {"udp", "rtp"}
       THEN Raised("ValueError")
       ELSE IF ip_ranges = <<>>
       THEN Raised("ValueError")
       ELSE IF ports = <<>>
       THEN Raised("ValueError")
       ELSE IF \E i \in DOMAIN parsed : ~parsed[i].ok
       THEN Raised("ValueError")
       ELSE IF \E j \in DOMAIN ports : ~ValidatePort(ports[j])
       THEN Raised("ValueError")
       ELSE [ok |-> TRUE, protocol |-> LowerScheme(protocol),
             ranges |-> parsed, ports |-> ports]

\* MulticastScanStrategy.iter_ip_addresses
RECURSIVE IterIpAddresses(_)
IterIpAddresses(ranges) ==
    IF ranges = <<>> THEN <<>>
    ELSE GenerateIpRange(ranges[1].start, ranges[1].end)
            \o IterIpAddresses(Tail(ranges))

\* mutant: an address that several ranges hold is counted once
MulticastEstimateTargetCount_Distinct(self) ==
    Cardinality(Range(IterIpAddresses(self.ranges))) * Len(self.ports)

\* MulticastScanStrategy.estimate_target_count
MulticastEstimateTargetCount(self) ==
    LET RECURSIVE ip_total(_)
        ip_total(ranges) ==
            IF ranges = <<>> THEN 0
            ELSE CountIps(ranges[1].start, ranges[1].end)
                    + ip_total(Tail(ranges))
    IN ip_total(self.ranges) * Len(self.ports)

\* f"{self._protocol}://{address}:{port}"
MulticastUrl(protocol, address, port) ==
    protocol \o "://" \o IPv4Str(address) \o ":" \o ToString(port)

\* no strategy constructed yet
NoStrategy == [ok |-> FALSE, error |-> "none", targets |-> <<>>]

\* generate_targets before its first step: range 1, first address, port 1
FirstTarget == [r |-> 1, off |-> 0, p |-> 1]

StrategyInit ==
    /\ st_args \in TemplateArgs \cup MulticastArgs
    /\ st_pc = "new"
    /\ st_self = NoStrategy
    /\ st_gen = FirstTarget
    /\ st_yielded = <<>>

\* no strategy under test
StrategyIdle ==
    /\ st_args = [class |-> "none"]
    /\ st_pc = "new"
    /\ st_self = NoStrategy
    /\ st_gen = FirstTarget
    /\ st_yielded = <<>>

\* TemplateScanStrategy(base_url, start_ip, end_ip)
TemplateConstruct ==
    /\ st_args.class = "template"
    /\ st_pc = "new"
    /\ st_self' = TemplateNew(st_args.base_url, st_args.start_ip,
                              st_args.end_ip)
    /\ st_pc' = IF st_self'.ok THEN "constructed" ELSE "raised"
    /\ UNCHANGED <<st_args, st_gen, st_yielded, notStratVars>>

\* TemplateScanStrategy.generate_targets: one step of the consumer, to the
\* next yield or to the end of the list
TemplateGenerateNext ==
    /\ st_args.class = "template"
    /\ st_pc = "constructed"
    /\ IF st_gen.off < Len(st_self.ip_addresses)
       THEN /\ st_yielded' = Append(st_yielded,
                    Replace(st_self.base_url,
                            IPv4Str(st_self.ip_addresses[st_gen.off + 1])))
            /\ st_gen' = [st_gen EXCEPT !.off = @ + 1]
            /\ UNCHANGED st_pc
       ELSE /\ st_pc' = "exhausted"
            /\ UNCHANGED <<st_gen, st_yielded>>
    /\ UNCHANGED <<st_args, st_self, notStratVars>>

\* MulticastScanStrategy(protocol=, ip_ranges=, ports=)
MulticastConstruct ==
    /\ st_args.class = "multicast"
    /\ st_pc = "new"
    /\ st_self' = MulticastNew(st_args.protocol, st_args.ip_ranges,
                               st_args.ports)
    /\ st_pc' = IF st_self'.ok THEN "constructed" ELSE "raised"
    /\ UNCHANGED <<st_args, st_gen, st_yielded, notStratVars>>

\* MulticastScanStrategy.generate_targets: one step of the consumer through
\* the three nested loops, to the next yield or to the end; IPv4Address(value)
\* in _iterate_range raises for a value above 255.255.255.255
MulticastGenerateNext ==
    /\ st_args.class = "multicast"
    /\ st_pc = "constructed"
    /\ IF st_gen.r > Len(st_self.ranges)
       THEN /\ st_pc' = "exhausted"
            /\ UNCHANGED <<st_gen, st_yielded>>
       ELSE LET range == st_self.ranges[st_gen.r]
                address == AddrPlus(range.start, st_gen.off)
            IN IF address.hi > 65535
               THEN /\ st_pc' = "generate raised"
                    /\ UNCHANGED <<st_gen, st_yielded>>
               ELSE /\ st_yielded' = Append(st_yielded,
                            MulticastUrl(st_self.protocol, address,
                                         st_self.ports[st_gen.p]))
                    /\ st_gen' =
                         IF st_gen.p < Len(st_self.ports)
                         THEN [st_gen EXCEPT !.p = @ + 1]
                         ELSE IF st_gen.off + 1
                                    < CountIps(range.start, range.end)
                         THEN [st_gen EXCEPT !.off = @ + 1, !.p = 1]
                         ELSE [r |-> st_gen.r + 1, off |-> 0, p |-> 1]
                    /\ UNCHANGED st_pc
    /\ UNCHANGED <<st_args, st_self, notStratVars>>

StrategyStep ==
    \/ TemplateConstruct
    \/ TemplateGenerateNext
    \/ MulticastConstruct
    \/ MulticastGenerateNext

(***************************************************************************)
(* capture_screenshot                                                      *)
(*                                                                         *)
(* The caller awaits wait_for(run_in_executor(_sync_capture_screenshot));  *)
(* the deadline of wait_for ends the caller's wait but not the thread.     *)
(***************************************************************************)

\* hwaccel arguments: None, the empty string, known and unknown hints
HwaccelArgs == {"None", "", "cuda", "VAAPI", "opencl"}

\* capture_screenshot(url, output_path, timeout, hwaccel) calls
ScreenshotArgs ==
    [timeout : {0, 1, ScreenshotMaxTimeout, ScreenshotMaxTimeout + 1},
     hwaccel : HwaccelArgs]

\* `if hwaccel:` / `if not hwaccel:`
HwaccelGiven(hwaccel) == hwaccel \notin {"None", ""}

\* _build_hwaccel_options: the hwaccel input option, "software" for none
BuildHwaccelOptions(hwaccel) ==
    IF ~HwaccelGiven(hwaccel) THEN "software"
    ELSE IF hwaccel \in {"vaapi", "VAAPI"} THEN "vaapi"
    ELSE IF hwaccel \in {"cuda", "CUDA"} THEN "cuda"
    ELSE "software"

\* _run_ffmpeg(url, output_path, timeout, hwaccel) up to ffmpeg.run
RunFfmpeg(hwaccel) ==
    [options |-> BuildHwaccelOptions(hwaccel), outcome |-> "running"]

\* mutant: a failed run is run again whether or not hwaccel was given
RetryInSoftware_Always(hwaccel) == TRUE

\* _sync_capture_screenshot: `if hwaccel:` in the handler of the first run
RetryInSoftware(hwaccel) == HwaccelGiven(hwaccel)

ScreenshotInit ==
    /\ sc_args \in ScreenshotArgs
    /\ sc_installed \in BOOLEAN
    /\ sc_thread = "idle"
    /\ sc_runs = <<>>
    /\ sc_caller = "calling"

\* no capture
ScreenshotIdle ==
    /\ sc_args = [timeout |-> 1, hwaccel |-> "None"]
    /\ sc_installed = TRUE
    /\ sc_thread = "idle"
    /\ sc_runs = <<>>
    /\ sc_caller = "calling"

\* capture_screenshot up to its await: the checks, then the executor thread
\* starts _sync_capture_screenshot, which starts the first run
CaptureScreenshot ==
    /\ sc_caller = "calling"
    /\ IF sc_args.timeout <= 0 \/ sc_args.timeout > ScreenshotMaxTimeout
       THEN /\ sc_caller' = "ValueError"
            /\ UNCHANGED <<sc_thread, sc_runs>>
       ELSE IF ~sc_installed
       THEN /\ sc_caller' = "FFmpegNotFoundError"
            /\ UNCHANGED <<sc_thread, sc_runs>>
       ELSE /\ sc_caller' = "awaiting"
            /\ sc_thread' = "running"
            /\ sc_runs' = <<RunFfmpeg(sc_args.hwaccel)>>
    /\ UNCHANGED <<sc_args, sc_installed, notShotVars>>

\* what the caller gets when the thread ends, unless wait_for already raised
CallerGets(outcome) == IF sc_caller = "awaiting" THEN outcome ELSE sc_caller

\* ffmpeg.run returns: _sync_capture_screenshot returns
RunSucceeds ==
    /\ sc_thread = "running"
    /\ sc_runs' = [sc_runs EXCEPT ![Len(sc_runs)].outcome = "ok"]
    /\ sc_thread' = "done"
    /\ sc_caller' = CallerGets("returned")
    /\ UNCHANGED <<sc_args, sc_installed, notShotVars>>

\* ffmpeg.run raises: the first run is followed by a run without hwaccel
\* when hwaccel was given; otherwise, and in the second run, the error
\* leaves _sync_capture_screenshot
RunFails ==
    /\ sc_thread = "running"
    /\ LET failed == [sc_runs EXCEPT ![Len(sc_runs)].outcome = "error"] IN
       IF Len(sc_runs) = 1 /\ RetryInSoftware(sc_args.hwaccel)
       THEN /\ sc_runs' = Append(failed, RunFfmpeg("None"))
            /\ UNCHANGED <<sc_thread, sc_caller>>
       ELSE /\ sc_runs' = failed
            /\ sc_thread' = "raised"
            /\ sc_caller' = CallerGets("ffmpeg.Error")
    /\ UNCHANGED <<sc_args, sc_installed, notShotVars>>

\* the deadline of wait_for passes while the thread is running: the caller
\* gets TimeoutError, the thread goes on
WaitForTimesOut ==
    /\ sc_caller = "awaiting"
    /\ sc_thread = "running"
    /\ sc_caller' = "TimeoutError"
    /\ UNCHANGED <<sc_args, sc_installed, sc_thread, sc_runs, notShotVars>>

ScreenshotStep ==
    \/ CaptureScreenshot
    \/ RunSucceeds
    \/ RunFails
    \/ WaitForTimesOut

(***************************************************************************)
(* JSONChannelRepository                                                   *)
(*                                                                         *)
(* add and delete hold the repository's lock from their first read of the  *)
(* file to their write, so each call is one step.  A URL is written as its *)
(* characters after the scheme.                                            *)
(***************************************************************************)

\* URLs as written: host x in both cases and with blanks around it, and
\* another host
UrlsWritten == {<<"x">>, <<"X">>, <<" ", "x", " ">>, <<"y">>}

\* values of created_at
CreatedAts == {1, 2}

\* Channel objects a caller can hold: built by the constructor, or by
\* model_copy(update=...) which does not validate
Channels ==
    [id : ChannelIds, url : UrlsWritten, created_at : CreatedAts,
     manually_edited : BOOLEAN]

RECURSIVE LStrip(_)
\* str.lstrip()
LStrip(text) ==
    IF text # <<>> /\ Head(text) = " " THEN LStrip(Tail(text)) ELSE text

RECURSIVE RStrip(_)
\* str.rstrip()
RStrip(text) ==
    IF text # <<>> /\ text[Len(text)] = " "
    THEN RStrip(SubSeq(text, 1, Len(text) - 1))
    ELSE text

\* str.strip()
Strip(text) == RStrip(LStrip(text))

\* str.lower()
Lower(text) ==
    [i \in 1..Len(text) |->
        IF text[i] = "X" THEN "x" ELSE IF text[i] = "Y" THEN "y" ELSE text[i]]

\* mutant: URLs are compared in the case they were written in
NormalizeUrl_CaseSensitive(url) == Strip(url)

\* JSONChannelRepository._normalize_url
NormalizeUrl(url) == Lower(Strip(url))

\* Channel.validate_stream_url on the stripped text: a host is required
ValidateStreamUrl(url) == url # <<>>

\* Channel(**data): str_strip_whitespace strips the url, the validator
\* then accepts or rejects it
ChannelAccepts(data) == ValidateStreamUrl(Strip(data.url))
ChannelNew(data) == [data EXCEPT !.url = Strip(@)]

RECURSIVE ReadChannelsSync(_)
\* _read_channels_sync: entries Channel(**item) rejects are skipped
ReadChannelsSync(file) ==
    IF file = <<>> THEN <<>>
    ELSE IF ChannelAccepts(Head(file))
    THEN <<ChannelNew(Head(file))>> \o ReadChannelsSync(Tail(file))
    ELSE ReadChannelsSync(Tail(file))

\* _merge_channels
MergeChannels(original, incoming) ==
    ChannelNew([incoming EXCEPT
                    !.id = original.id,
                    !.created_at = original.created_at,
                    !.manually_edited =
                        original.manually_edited \/ incoming.manually_edited])

\* the indexes add's loop compares equal to the incoming URL
Matching(channels, url) ==
    {index \in 1..Len(channels) :
        NormalizeUrl(channels[index].url) = NormalizeUrl(url)}

\* the first of a non-empty set of indexes
FirstIndex(indexes) == CHOOSE i \in indexes : \A j \in indexes : i <= j

\* before the first call
NoRepoCall ==
    [op |-> "none", index |-> 0, id |-> 0, url |-> <<>>, edited |-> FALSE]

\* the file __init__ writes: "[]"
RepoInit ==
    /\ repo_file = <<>>
    /\ repo_ret = NoRepoCall

\* no repository call
RepoIdle == RepoInit

\* add(channel)
Add(channel) ==
    /\ LET channels == ReadChannelsSync(repo_file)
           found == Matching(channels, channel.url)
       IN  IF found # {}
           THEN LET index == FirstIndex(found)
                    merged == MergeChannels(channels[index], channel)
                IN  /\ repo_file' = [channels EXCEPT ![index] = merged]
                    /\ repo_ret' = [op |-> "add", index |-> index,
                                    id |-> channel.id, url |-> channel.url,
                                    edited |-> channel.manually_edited]
           ELSE /\ repo_file' = Append(channels, channel)
                /\ repo_ret' = [op |-> "add", index |-> 0,
                                id |-> channel.id, url |-> channel.url,
                                edited |-> channel.manually_edited]
    /\ UNCHANGED notRepoVars

\* delete(channel_id): index 1 records True, index 0 False
Delete(channel_id) ==
    /\ LET channels == ReadChannelsSync(repo_file)
           remaining == SelectSeq(channels, LAMBDA c : c.id # channel_id)
       IN  IF Len(remaining) = Len(channels)
           THEN /\ repo_ret' = [op |-> "delete", index |-> 0,
                                id |-> channel_id, url |-> <<>>,
                                edited |-> FALSE]
                /\ UNCHANGED repo_file
           ELSE /\ repo_file' = remaining
                /\ repo_ret' = [op |-> "delete", index |-> 1,
                                id |-> channel_id, url |-> <<>>,
                                edited |-> FALSE]
    /\ UNCHANGED notRepoVars

RepoStep ==
    \/ \E channel \in Channels : Add(channel)
    \/ \E channel_id \in ChannelIds : Delete(channel_id)

\* the components added last are idle
LateIdle == ScreenshotIdle /\ RepoIdle /\ StreamsIdle

\* the components of the specifications above are idle
CoreIdle ==
    /\ LimiterIdle /\ OrchIdle /\ ManagerIdle /\ SmartIdle /\ ValidatorIdle
    /\ StrategyIdle

(***************************************************************************)
(* Specifications                                                          *)
(***************************************************************************)

\* a limiter under test: no orchestrator run, no scan session
InitLimiter ==
    /\ LimiterInit /\ OrchIdle /\ ManagerIdle /\ SmartIdle /\ ValidatorIdle
    /\ StrategyIdle /\ LateIdle
SpecLimiter == InitLimiter /\ [][LimiterStep]_vars

\* the callers followed to their admission
FairCallers == {1, 2, 3}

LimiterFairStep ==
    \E c \in FairCallers :
        \/ CallExecute(c)
        \/ CallWith(c)
        \/ Admitted(c)
        \/ WorkReturns(c)
        \/ WorkRaises(c)
        \/ WorkTimesOut(c)
        \/ BlockEnds(c)
        \/ CancelRunning(c)
        \/ CancelBlocked(c)

\* the event loop resumes a caller whose slot was handed over, and the work
\* of an execute call ends by itself or at the deadline of wait_for; the
\* body of an `async with limiter:` block has no deadline
FairLimiter(c) ==
    /\ WF_vars(Admitted(c))
    /\ WF_vars(WorkReturns(c) \/ WorkRaises(c) \/ WorkTimesOut(c))
SpecLimiterFair ==
    InitLimiter /\ [][LimiterFairStep]_vars /\ \A c \in FairCallers : FairLimiter(c)

\* an orchestrator under test, driven directly by a consumer
InitOrch ==
    /\ LimiterIdle /\ OrchInit /\ ManagerIdle /\ SmartIdle /\ ValidatorIdle
    /\ StrategyIdle /\ LateIdle
SpecOrch == InitOrch /\ [][OrchStep]_vars

\* a smart port scanner under test, pulled by a consumer
InitSmart ==
    /\ LimiterIdle /\ OrchIdle /\ ManagerIdle /\ SmartInit /\ ValidatorIdle
    /\ StrategyIdle /\ LateIdle
SpecSmart == InitSmart /\ [][SmartStep]_vars

\* a validator under test
InitValidator ==
    /\ LimiterIdle /\ OrchIdle /\ ManagerIdle /\ SmartIdle /\ ValidatorInit
    /\ StrategyIdle /\ LateIdle
SpecValidator == InitValidator /\ [][ValidatorStep]_vars

\* a scan strategy under test: constructed, then iterated to its end
InitStrategy ==
    /\ LimiterIdle /\ OrchIdle /\ ManagerIdle /\ SmartIdle /\ ValidatorIdle
    /\ StrategyInit /\ LateIdle
SpecStrategy == InitStrategy /\ [][StrategyStep]_vars

\* one capture_screenshot call
InitScreenshot == CoreIdle /\ ScreenshotInit /\ RepoIdle /\ StreamsIdle
SpecScreenshot == InitScreenshot /\ [][ScreenshotStep]_vars

\* one repository, created on a missing file
InitRepo == CoreIdle /\ ScreenshotIdle /\ RepoInit /\ StreamsIdle

\* a smart port scanner on a network with fixed streams
InitStable ==
    /\ LimiterIdle /\ OrchIdle /\ ManagerIdle /\ SmartInit /\ ValidatorIdle
    /\ StrategyIdle /\ ScreenshotIdle /\ RepoIdle
    /\ sp_streams \in StreamMaps
SpecStable == InitStable /\ [][StableStep]_vars
SpecRepo == InitRepo /\ [][RepoStep]_vars

Init ==
    /\ LimiterIdle /\ OrchIdle /\ ManagerInit /\ SmartIdle /\ ValidatorIdle
    /\ StrategyIdle /\ LateIdle
Next == ManagerStep
Spec == Init /\ [][Next]_vars

\* the event loop is fair to every task that can run: a created task is
\* started, a requested cancellation is delivered, an awaited probe returns
\* or reaches the limiter's deadline, and a cancel_scan call whose task is
\* over is resumed
FairLoop(id) ==
    /\ WF_vars(TaskStarts(id))
    /\ WF_vars(TaskProbeReturns(id) \/ TaskProbeTimesOut(id))
    /\ WF_vars(TaskCancelled(id))
    /\ WF_vars(CancelScanReturns(id))

\* the sessions followed to their end
FairSessions == {1, 2}

\* start_scan, for the sessions followed
StartFairScan ==
    /\ Len(sessions) + badRequests < Cardinality(FairSessions)
    /\ StartScan

\* a manager with two start_scan requests: one session can end by itself
\* while the other is cancelled; sessions share no state, so further
\* sessions add nothing to the life of these
NextFair ==
    \/ StartFairScan
    \/ \E id \in SessionIds : GetScan(id)
    \/ \E id \in SessionIds : CancelScan(id)
    \/ \E id \in SessionIds : CancelScanReturns(id)
    \/ \E id \in SessionIds : TaskStarts(id)
    \/ \E id \in SessionIds : TaskProbeReturns(id)
    \/ \E id \in SessionIds : TaskProbeTimesOut(id)
    \/ \E id \in SessionIds : TaskCancelled(id)
SpecFair ==
    Init /\ [][NextFair]_vars /\ \A id \in SessionIds : FairLoop(id)

\* slots held: callers admitted to the block that have not left it
Held == {c \in Callers : callPc[c] \in {"woken", "running"}}
InBlock == {c \in Callers : callPc[c] = "running"}
Finished == {"returned", "raised", "timeout", "cancelled"}

LimTypeOK ==
    /\ sem_value \in 0..lim_capacity
    /\ workDur \in 0..MaxTime
    /\ \A c \in Callers : callPc[c] \in
          {"idle", "waiting", "woken", "running"} \cup Finished

(***************************************************************************)
(* Claims about the RateLimiter (checked under SpecLimiter)                *)
(***************************************************************************)

\* C2: at every moment the number of executions that hold a slot (acquired
\* and not yet released) is at most the capacity C, however many execute
\* calls and `async with` blocks were submitted.
C2_AtMostCapacity ==
    /\ Cardinality(Held) <= lim_capacity
    /\ Cardinality(InBlock) <= lim_capacity

\* C2 witness: more callers than slots were submitted; the limiter is full
\* and a caller is kept waiting.
C2_Witness ==
    /\ Cardinality(InBlock) = lim_capacity
    /\ \E c \in Callers : callPc[c] = "waiting"
    /\ \E c, d \in InBlock : callKind[c] = "execute" /\ callKind[d] = "with"

\* C7: free slots plus held slots equals C in every state, and all C slots
\* are free once every call has finished, whatever the exit paths were.
C7_SlotsConserved ==
    /\ sem_value + Cardinality(Held) = lim_capacity
    /\ (\A c \in Callers : callPc[c] \in Finished \cup {"idle"})
          => sem_value = lim_capacity

\* C7 witness: every call has finished, by timeout, by an exception of the
\* work and by cancellation among them, and all slots are free.
C7_Witness ==
    /\ \A c \in Callers : callPc[c] \in Finished
    /\ \E c \in Callers : callPc[c] = "timeout"
    /\ \E c \in Callers : callPc[c] = "raised"
    /\ \E c \in Callers : callPc[c] = "cancelled"
    /\ sem_value = lim_capacity

\* the deadline the call asked for: its own timeout when given, otherwise
\* the limiter's default
OwnDeadline(c) ==
    IF callTimeout[c] = NoTimeout THEN lim_timeout ELSE callTimeout[c]

\* C8: a call ends with a timeout error exactly when its work is still running
\* at its own deadline, and that step aborts or fails no other call: every
\* other call stays where it is (or is handed the freed slot); a call that
\* returns did so within its own deadline.
C8_TimeoutStep ==
    \A c \in Callers :
        /\ (callPc[c] = "running" /\ callPc'[c] = "timeout") =>
              /\ workDur' = OwnDeadline(c)
              /\ \A o \in Callers \ {c} :
                    \/ callPc'[o] = callPc[o]
                    \/ callPc[o] = "waiting" /\ callPc'[o] = "woken"
        /\ (callPc[c] = "running" /\ callKind[c] = "execute"
              /\ callPc'[c] \in {"returned", "raised"}) =>
              workDur' <= OwnDeadline(c)

C8_TimeoutOnlyForItsCaller == [][C8_TimeoutStep]_vars

\* C8 witness: one call has timed out under a per-call timeout that differs
\* from the default while a sibling that was in flight is still running.
C8_Witness ==
    \E c, o \in Callers :
        /\ callPc[c] = "timeout" /\ workDur # lim_timeout
        /\ callPc[o] = "running" /\ callKind[o] = "execute"

(***************************************************************************)
(* Claims about ScanOrchestrator.execute_scan (checked under SpecOrch)     *)
(***************************************************************************)

\* C3: execute_scan yields the results in target order, the i-th result
\* being that of the probe of the i-th target the strategy generated, and a
\* run that reaches the end of the strategy has yielded exactly one result
\* per target, for every limiter capacity.
C3_ResultsInTargetOrder ==
    /\ Len(o_collected) <= Len(o_calls)
    /\ Len(o_calls) <= Len(o_collected) + 1
    /\ Len(o_calls) <= Len(o_targets)
    /\ \A i \in 1..Len(o_calls) : o_calls[i] = o_targets[i]
    /\ \A i \in 1..Len(o_collected) : o_collected[i].url = o_targets[i]
    /\ o_run.pc = "exhausted" => Len(o_collected) = Len(o_targets)

\* C3 witness: a run over two different targets under a limiter of
\* capacity 2 has ended after yielding both results.
C3_Witness ==
    /\ o_run.pc = "exhausted"
    /\ o_run.cap = 2
    /\ Len(o_targets) = 2 /\ o_targets[1] # o_targets[2]
    /\ Len(o_collected) = 2

\* the results the validator has returned so far in this run
ReturnedResults ==
    IF o_run.pc = "dispatching"
       \/ (o_run.pc = "raised" /\ o_run.exc = "ObserverError")
    THEN Append(o_collected, o_run.result)
    ELSE o_collected

ValidAmong(results, k) == Cardinality({i \in 1..k : results[i].is_valid})

SnapshotOfTarget(p, k) ==
    /\ p.completed = k
    /\ p.valid = ValidAmong(ReturnedResults, k)
    /\ p.invalid = k - p.valid
    /\ p.total = Len(o_targets)

\* C9: the counters advance once per completed target: every snapshot an
\* observer was called with has completed = k for a completed target k, valid
\* the number of valid results among the first k, invalid = k - valid and
\* total the number of targets; consecutive snapshots of an observer differ by
\* one target; after the last target the counters are {completed: n,
\* valid + invalid: n, total: n}.
C9_ProgressOncePerTarget ==
    /\ \A k \in Observers : \A i \in 1..Len(o_seen[k]) :
          /\ o_seen[k][i].completed \in 1..Len(ReturnedResults)
          /\ SnapshotOfTarget(o_seen[k][i], o_seen[k][i].completed)
          /\ i > 1 => o_seen[k][i].completed = o_seen[k][i - 1].completed + 1
    /\ o_run.pc # "init" =>
          SnapshotOfTarget(o_run.progress, Len(ReturnedResults))
    /\ o_run.pc = "exhausted" =>
          /\ o_run.progress.completed = Len(o_targets)
          /\ o_run.progress.valid + o_run.progress.invalid = Len(o_targets)

\* C9 witness: two targets, the first valid and the second not; an observer
\* has received both snapshots, the last being {2, 1, 1, 2}.
C9_Witness ==
    /\ o_run.pc = "exhausted"
    /\ Len(o_collected) = 2
    /\ o_collected[1].is_valid /\ ~o_collected[2].is_valid
    /\ Len(o_seen[1]) = 2
    /\ o_seen[1][1] = [total |-> 2, completed |-> 1, valid |-> 1, invalid |-> 0]
    /\ o_seen[1][2] = [total |-> 2, completed |-> 2, valid |-> 1, invalid |-> 1]

\* C10: when a progress observer raises while handling a snapshot, the scan
\* is not ended by it: execute_scan does not raise the observer's error.
C10_ObserverFailureDoesNotEndScan ==
    \A k \in Observers : obsPc[k] = "raised" => o_run.exc # "ObserverError"

(***************************************************************************)
(* Claims about ScanManager (checked under Spec)                           *)
(***************************************************************************)

AllowedTransitions ==
    {<<"pending", "running">>, <<"running", "completed">>,
     <<"running", "cancelled">>, <<"running", "failed">>,
     <<"pending", "cancelled">>}

\* C1: a session is created PENDING and every later change of status is one
\* of PENDING->RUNNING, RUNNING->COMPLETED, RUNNING->CANCELLED,
\* RUNNING->FAILED, PENDING->CANCELLED; nothing leaves a terminal status.
C1_OnlyTableTransitions ==
    \A id \in Known :
        LET trail == sessions[id].trail IN
        /\ trail[1] = "pending"
        /\ \A i \in 1..(Len(trail) - 1) :
              <<trail[i], trail[i + 1]>> \in AllowedTransitions

\* C4: once a cancel_scan call has returned for a session, the status is
\* CANCELLED, completed_at is set, the task is over, and the number of probes
\* started and of results counted is what it was at the return.
C4_CancelReturnsAfterTaskEnded ==
    \A id \in Known :
        cancelReturn[id] # NoReturn =>
            /\ sessions[id].status = "cancelled"
            /\ sessions[id].completed_at # NoStamp
            /\ sessions[id].task \in TaskOver
            /\ sessions[id].progress = cancelReturn[id].progress
            /\ sessions[id].run.idx = cancelReturn[id].probes

\* C4 witness: the cancel arrived while the second of two probes was in
\* flight; cancel_scan has returned after the task ended by CancelledError.
C4_Witness ==
    \E id \in Known :
        /\ cancelReturn[id] # NoReturn
        /\ sessions[id].task = "cancelled"
        /\ sessions[id].run.exc = "CancelledError"
        /\ sessions[id].progress = 1 /\ sessions[id].total = 2

\* C5: a probe that exceeds its deadline never aborts the orchestrator's
\* result sequence and never turns the session FAILED.
C5_ProbeTimeoutDoesNotFailSession ==
    \A id \in Known :
        sessions[id].run.late > 0 =>
            /\ sessions[id].run.pc # "raised"
            /\ sessions[id].status # "failed"

\* C6: after a session is terminal, its task over and no cancel_scan call
\* still waiting for it, no operation changes its progress, valid, invalid,
\* error or completed_at.
C6_TerminalSessionFrozen ==
    [][\A id \in Known :
          (/\ sessions[id].status \in Terminal
           /\ sessions[id].task \in TaskOver
           /\ cancelWait[id] = 0) =>
              /\ sessions'[id].progress = sessions[id].progress
              /\ sessions'[id].valid = sessions[id].valid
              /\ sessions'[id].invalid = sessions[id].invalid
              /\ sessions'[id].error = sessions[id].error
              /\ sessions'[id].completed_at = sessions[id].completed_at]_vars

\* the first cancel_scan call for the session found its task alive (status
\* PENDING or RUNNING) with no result handled yet
CancelledEarly(id) ==
    /\ cancelCall[id].status \in {"pending", "running"}
    /\ cancelCall[id].progress = 0

\* C11: a session cancelled before its task handled any result is CANCELLED
\* from the call on with progress = valid = invalid = 0, its status never
\* was and never becomes COMPLETED or FAILED, and once cancel_scan has
\* returned the task is over.
C11_EarlyCancelGoesStraightToCancelled ==
    \A id \in Known :
        CancelledEarly(id) =>
            /\ sessions[id].status = "cancelled"
            /\ sessions[id].progress = 0
            /\ sessions[id].valid = 0 /\ sessions[id].invalid = 0
            /\ \A i \in 1..Len(sessions[id].trail) :
                  sessions[id].trail[i] \notin {"completed", "failed"}
            /\ cancelReturn[id] # NoReturn =>
                  sessions[id].task \in TaskOver

\* C11 witness: cancel_scan found the session RUNNING, its first probe in
\* flight; the task ended by CancelledError and cancel_scan has returned.
C11_Witness ==
    \E id \in Known :
        /\ CancelledEarly(id)
        /\ cancelCall[id].status = "running"
        /\ cancelReturn[id] # NoReturn
        /\ sessions[id].run.exc = "CancelledError"
        /\ sessions[id].trail = <<"pending", "running", "cancelled">>

\* C12: once the scan of a session has raised an exception other than
\* cancellation, the session is FAILED with error the exception's message
\* and completed_at set, and its task, created once by start_scan, is over
\* and is not scheduled again.
C12_RaisedScanEndsFailed ==
    \A id \in Known :
        (sessions[id].run.pc = "raised"
           /\ sessions[id].run.exc # "CancelledError") =>
            /\ sessions[id].status = "failed"
            /\ sessions[id].error = TimeoutErrorStr
            /\ sessions[id].completed_at # NoStamp
            /\ sessions[id].task = "finished"

\* C13: the error field of a session is set only while its status is
\* FAILED.
C13_ErrorOnlyWhenFailed ==
    \A id \in Known :
        sessions[id].error # NoError => sessions[id].status = "failed"

\* C14: a start_scan call whose request cannot be built leaves the session
\* table as it was (no session, no task), and every session in the table
\* holds a strategy built from a request, with at least one target.
C14_RejectedStartCreatesNothing ==
    [][badRequests' # badRequests =>
          /\ sessions' = sessions
          /\ \A id \in Known : Len(sessions[id].strategy) >= 1]_vars

\* C14 witness: a request was rejected after a session had been started;
\* the table holds that one session only.
C14_Witness ==
    /\ badRequests = 1
    /\ Len(sessions) = 1
    /\ sessions[1].status = "running"

\* the scan of the session ran to the end of its targets without a
\* cancel_scan call and without an exception
RanToEnd(id) ==
    /\ sessions[id].task = "finished"
    /\ ~sessions[id].cancel_event
    /\ sessions[id].run.pc # "raised"

\* C15: a scan that ran to the end is COMPLETED with completed_at set,
\* progress the number of results the orchestrator yielded, one per target,
\* valid the number of valid ones among them and invalid the rest.
C15_CompletedCountsMatchResults ==
    \A id \in Known :
        RanToEnd(id) =>
            /\ sessions[id].status = "completed"
            /\ sessions[id].completed_at # NoStamp
            /\ sessions[id].progress = Len(sessions[id].strategy)
            /\ sessions[id].progress = sessions[id].run.progress.completed
            /\ sessions[id].valid = sessions[id].run.progress.valid
            /\ sessions[id].invalid =
                  sessions[id].progress - sessions[id].valid

\* C15 witness: two targets, one valid and one invalid result, COMPLETED.
C15_Witness ==
    \E id \in Known :
        /\ RanToEnd(id)
        /\ sessions[id].progress = 2
        /\ sessions[id].valid = 1 /\ sessions[id].invalid = 1

(***************************************************************************)
(* Claims about SmartPortScanner (checked under SpecSmart)                 *)
(***************************************************************************)

NIps == Len(sp_strategy.ips)
NPorts == Len(sp_strategy.ports)

\* smart mode on and at least two addresses
SmartCase == sp_enable_smart_scan /\ NIps >= 2

\* the ports whose discovery probe returned a valid result
ValidOnFirst == {r.port : r \in {x \in Range(sp_gen.results) : x.is_valid}}

\* discovery is over
Discovered == sp_gen.pc \in {"emit", "scan", "yield", "done"}

\* the call and the result at position n are about the same url
SameUrl(n) ==
    /\ sp_emitted[n].ip = sp_calls[n].ip
    /\ sp_emitted[n].port = sp_calls[n].port

\* the smart case, with discovery probes expected to carry timeout t:
\* discovery probes are the ports of the first address in configured order;
\* with D non-empty, the follow-up is, address by address, the ports of D in
\* ascending order under the default timeout; every result is emitted.
SmartScanShape(t) ==
    LET D == ValidOnFirst
        nd == Cardinality(D)
    IN
    /\ \A j \in 1..NPorts : j <= Len(sp_calls) =>
          sp_calls[j] = [ip |-> sp_strategy.ips[1],
                         port |-> sp_strategy.ports[j], timeout |-> t]
    /\ ~Discovered => Len(sp_calls) <= NPorts
    /\ (Discovered /\ D # {}) =>
          /\ Len(sp_calls) <= NPorts + (NIps - 1) * nd
          /\ \A n \in (NPorts + 1)..Len(sp_calls) :
                LET r == (n - NPorts - 1) \div nd
                    d == (n - NPorts - 1) % nd
                IN /\ sp_calls[n].ip = sp_strategy.ips[r + 2]
                   /\ sp_calls[n].port \in D
                   /\ sp_calls[n].timeout = ValidatorDefaultTimeout
                   /\ d > 0 => sp_calls[n - 1].port < sp_calls[n].port
          /\ sp_gen.pc = "done" =>
                /\ Len(sp_calls) = NPorts + (NIps - 1) * nd
                /\ Len(sp_emitted) = Len(sp_calls)
                /\ \A n \in 1..Len(sp_calls) : SameUrl(n)

\* C16 as stated: in the smart case the discovery probes carry the
\* configured discovery timeout (the validator's default when none is
\* configured), and the follow-up probes exactly the discovered ports, in
\* ascending order, |ports| + (addresses - 1) * |D| probes in all.
C16_DiscoveryThenDiscoveredPorts_Original ==
    SmartCase =>
        SmartScanShape(IF sp_discovery_timeout = NoTimeout
                       THEN ValidatorDefaultTimeout
                       ELSE sp_discovery_timeout)

\* C16 (amended): as above, the discovery probes carrying the discovery
\* timeout when it is a non-zero number and the validator's default timeout
\* when it is None or 0.
C16_DiscoveryThenDiscoveredPorts ==
    SmartCase =>
        SmartScanShape(IF sp_discovery_timeout \in {NoTimeout, 0}
                       THEN ValidatorDefaultTimeout
                       ELSE sp_discovery_timeout)

\* C16 witness: two addresses, ports 8004 then 8000 of which both validated
\* on the first address: 2 + 1 * 2 probes, the follow-up in ascending order.
C16_Witness ==
    /\ SmartCase
    /\ sp_gen.pc = "done"
    /\ sp_strategy.ips = <<1, 2>>
    /\ sp_strategy.ports = <<8004, 8000>>
    /\ ValidOnFirst = {8000, 8004}
    /\ Len(sp_calls) = 4
    /\ sp_calls[3].port = 8000 /\ sp_calls[4].port = 8004
    /\ sp_calls[1].timeout = DefaultDiscoveryTimeout

\* one of the exhaustive cases: smart mode off, one address, or discovery
\* over with no valid port on the first address
ExhaustiveCase ==
    \/ ~sp_enable_smart_scan
    \/ NIps = 1
    \/ Discovered /\ ValidOnFirst = {}

\* C17: in an exhaustive case the probes are the configured (address, port)
\* matrix, address by address in port order, each position once; when the
\* generator is done there are addresses * ports probes and one result per
\* probe, the discovery probes of the first address included and not redone.
C17_ExhaustiveMatrix ==
    ExhaustiveCase =>
        /\ Len(sp_calls) <= NIps * NPorts
        /\ \A n \in 1..Len(sp_calls) :
              /\ sp_calls[n].ip = sp_strategy.ips[((n - 1) \div NPorts) + 1]
              /\ sp_calls[n].port = sp_strategy.ports[((n - 1) % NPorts) + 1]
        /\ sp_gen.pc = "done" =>
              /\ Len(sp_calls) = NIps * NPorts
              /\ Len(sp_emitted) = Len(sp_calls)
              /\ \A n \in 1..Len(sp_calls) : SameUrl(n)

\* C17 witness: smart mode on, two addresses and two ports, nothing valid on
\* the first address: four probes, two of them on the first address.
C17_Witness ==
    /\ sp_enable_smart_scan /\ NIps = 2 /\ NPorts = 2
    /\ sp_gen.pc = "done"
    /\ ValidOnFirst = {}
    /\ Len(sp_gen.results) = 2
    /\ Len(sp_calls) = 4

(***************************************************************************)
(* Claims about StreamValidator (checked under SpecValidator)              *)
(***************************************************************************)

\* the metadata of the last probe lists a video stream
VideoDetected ==
    /\ v_outcome.kind = "metadata" /\ v_outcome.is_list
    /\ \E n \in 1..Len(v_outcome.streams) : v_outcome.streams[n] = "video"

\* C18: a returned result that is valid has a detected video stream and no
\* error category; one that is invalid has one of the six categories.
C18_ResultShape ==
    v_pc = "returned" =>
        /\ v_result.is_valid =>
              VideoDetected /\ v_result.error_category = "none"
        /\ ~v_result.is_valid =>
              v_result.error_category \in ErrorCategories

\* C18 witness: an rtsp probe returned audio and video streams: valid, no
\* category.
C18_Witness ==
    /\ v_pc = "returned"
    /\ v_result.is_valid
    /\ v_result.protocol = "rtsp"
    /\ v_outcome.streams = <<"audio", "video">>

\* the diagnostic text holds the phrase, in either letter case
Mentions(phrase) == phrase \in v_outcome.text.phrases

\* the probe of the last call raised
ProbeFailed ==
    v_pc = "returned" /\ v_outcome.kind \in {"ffmpeg.Error", "Exception"}

Unprobeable ==
    \/ v_url.scheme = ""
    \/ v_url.scheme \notin {"http", "HTTP", "https", "rtsp", "rtp", "RTP",
                            "udp"}
    \/ ~v_installed

\* C20: for such a call validate returns at once, invalid with category
\* UNSUPPORTED_PROTOCOL, and ffmpeg.probe is never called.
C20_UnsupportedWithoutProbe ==
    (Unprobeable /\ v_pc # "called") =>
        /\ v_pc = "returned"
        /\ ~v_result.is_valid
        /\ v_result.error_category = "unsupported_protocol"
        /\ v_probes = <<>>
        /\ v_outcome = NoOutcome

\* C20 witness: a supported scheme, ffmpeg missing.
C20_Witness ==
    /\ v_pc = "returned"
    /\ v_url.scheme = "udp" /\ ~v_installed
    /\ v_result.error_category = "unsupported_protocol"

\* C21: validate never raises: every call ends with a result, and a probe
\* that raised, or returned metadata without a usable stream list, ends with
\* an invalid result.
C21_ValidateNeverRaises ==
    /\ v_pc # "raised"
    /\ (v_pc = "returned"
          /\ (v_outcome.kind \in {"ffmpeg.Error", "Exception"}
                \/ (v_outcome.kind = "metadata" /\ ~v_outcome.is_list))) =>
            ~v_result.is_valid

\* the probe returned metadata
ProbeSucceeded == v_pc = "returned" /\ v_outcome.kind = "metadata"

\* C22: when the probe returned metadata, the result is valid exactly when
\* the metadata lists a video stream, and is NO_VIDEO_STREAM otherwise,
\* under each of the five protocols.
C22_ValidIffVideoStream ==
    ProbeSucceeded =>
        /\ v_result.is_valid <=> VideoDetected
        /\ ~VideoDetected =>
              v_result.error_category = "no_video_stream"

\* C22 witness: a udp probe returned an audio stream only.
C22_Witness ==
    /\ ProbeSucceeded
    /\ DetectProtocol(v_url) = "udp"
    /\ v_outcome.streams = <<"audio">>
    /\ v_result.error_category = "no_video_stream"

\* a Template strategy was constructed
TemplateBuilt ==
    st_args.class = "template" /\ st_pc \in {"constructed", "exhausted"}

\* C23: for a constructed Template strategy, estimate_target_count() is
\* end - start + 1 and is the number of urls generate_targets() yields, and
\* the k-th url is the pattern with the placeholder replaced by the k-th
\* address of the range, counted up from start.
C23_TemplateCountAndOrder ==
    TemplateBuilt =>
        LET start == IPv4Address(st_args.start_ip)
            end == IPv4Address(st_args.end_ip)
            estimate == TemplateEstimateTargetCount(st_self)
        IN /\ estimate = CountIps(start, end)
           /\ Len(st_yielded) <= estimate
           /\ st_pc = "exhausted" => Len(st_yielded) = estimate
           /\ \A k \in 1..Len(st_yielded) :
                st_yielded[k] =
                    Replace(st_args.base_url, IPv4Str(AddrPlus(start, k - 1)))

\* C23 witness: a range of three addresses across 10.0.255.255 was yielded to
\* its end.
C23_Witness ==
    /\ TemplateBuilt
    /\ st_pc = "exhausted"
    /\ st_yielded = << "http://10.0.255.254:8080/live",
                       "http://10.0.255.255:8080/live",
                       "http://10.1.0.0:8080/live" >>

\* the arguments of the Template constructor name a range: two addresses
TemplateRangeGiven ==
    /\ st_args.class = "template"
    /\ IPv4Address(st_args.start_ip) # NoAddress
    /\ IPv4Address(st_args.end_ip) # NoAddress

\* the number of placeholders in the base_url argument
PlaceholderCount ==
    Cardinality({i \in DOMAIN st_args.base_url :
                    st_args.base_url[i] = Placeholder})

\* the addresses start..end of the Template arguments are all private
AllPrivate ==
    LET start == IPv4Address(st_args.start_ip)
    IN \A k \in 0..(CountIps(start, IPv4Address(st_args.end_ip)) - 1) :
            IsPrivate(AddrPlus(start, k))

C25_ExactlyOnePlaceholder ==
    TemplateBuilt => PlaceholderCount = 1

\* a Multicast strategy was constructed
MulticastBuilt ==
    st_args.class = "multicast" /\ st_pc \in {"constructed", "exhausted"}

\* C26: for a constructed Multicast strategy, the n-th url generate_targets()
\* yields is protocol://address:port for the addresses of the ranges in the
\* order given, ascending within a range, each with every port in configured
\* order; the number yielded is estimate_target_count(), the sum of the range
\* sizes times the number of ports, an address in two ranges counted twice.
C26_MulticastCrossProduct ==
    MulticastBuilt =>
        LET addresses == IterIpAddresses(st_self.ranges)
            nports == Len(st_args.ports)
            estimate == MulticastEstimateTargetCount(st_self)
        IN /\ estimate = Len(addresses) * nports
           /\ Len(st_yielded) <= estimate
           /\ st_pc = "exhausted" => Len(st_yielded) = estimate
           /\ \A n \in 1..Len(st_yielded) :
                st_yielded[n] =
                    MulticastUrl(LowerScheme(st_args.protocol),
                                 addresses[((n - 1) \div nports) + 1],
                                 st_args.ports[((n - 1) % nports) + 1])

\* C26 witness: two ranges that share 224.0.0.1, with two ports, were yielded
\* to the end: six urls, 224.0.0.1 twice with each port.
C26_Witness ==
    /\ MulticastBuilt
    /\ st_pc = "exhausted"
    /\ st_args.ip_ranges = << << <<224, 0, 0, 0>>, <<224, 0, 0, 1>> >>,
                              << <<224, 0, 0, 1>> >> >>
    /\ st_yielded = << "rtp://224.0.0.0:1", "rtp://224.0.0.0:65535",
                       "rtp://224.0.0.1:1", "rtp://224.0.0.1:65535",
                       "rtp://224.0.0.1:1", "rtp://224.0.0.1:65535" >>

\* a range definition the Multicast constructor must refuse: not one or two
\* addresses, start > end, or an endpoint outside 224.0.0.0/4
BadRange(range_definition) ==
    LET start == IPv4Address(range_definition[1])
        end == IPv4Address(range_definition[Len(range_definition)])
    IN \/ Len(range_definition) > 2
       \/ start = NoAddress
       \/ end = NoAddress
       \/ ~AddrLE(start, end)
       \/ ~IsMulticast(start)
       \/ ~IsMulticast(end)

\* C27: the Multicast constructor raises on a protocol other than udp or rtp,
\* on an empty range list, on an empty port list, on a port outside 1..65535
\* and on a range that is unparsable, inverted or has an endpoint outside
\* 224.0.0.0/4; a constructed strategy yields only addresses of the multicast
\* block and its iteration never raises.
C27_MulticastConstructionFails ==
    (st_args.class = "multicast" /\ st_pc # "new") =>
        /\ (\/ LowerScheme(st_args.protocol) \notin {"udp", "rtp"}
            \/ st_args.ip_ranges = <<>>
            \/ st_args.ports = <<>>
            \/ \E j \in DOMAIN st_args.ports :
                    st_args.ports[j] \notin 1..65535
            \/ \E i \in DOMAIN st_args.ip_ranges :
                    BadRange(st_args.ip_ranges[i]))
              => st_pc = "raised"
        /\ st_pc \in {"raised", "constructed", "exhausted"}
        /\ MulticastBuilt =>
              LET addresses == IterIpAddresses(st_self.ranges)
              IN /\ \A k \in DOMAIN addresses : IsMulticast(addresses[k])
                 /\ \A n \in DOMAIN st_yielded :
                      \E k \in DOMAIN addresses, j \in DOMAIN st_self.ports :
                        st_yielded[n] =
                            MulticastUrl(st_self.protocol, addresses[k],
                                         st_self.ports[j])

\* C27 witness: a strategy over the last address of the block was constructed
\* and yielded to the end.
C27_Witness ==
    /\ MulticastBuilt
    /\ st_pc = "exhausted"
    /\ st_yielded = << "udp://239.255.255.255:65535" >>

\* C28: a session in the table stays in the table: get_scan keeps returning
\* it, the same strategy and total, whatever its status; for an id the table
\* does not hold, get_scan raises ScanNotFoundError, and a cancel_scan call
\* changes no session and returns nothing.
C28_SessionsAreKept ==
    /\ [][/\ \A id \in Known :
                /\ id \in DOMAIN sessions'
                /\ sessions'[id].strategy = sessions[id].strategy
                /\ sessions'[id].total = sessions[id].total
          /\ ncancels' # ncancels =>
                \A id \in SessionIds \ Known :
                    CancelScan(id) =>
                        UNCHANGED <<sessions, cancelWait, cancelReturn,
                                    cancelCall>>]_vars
    /\ [](\A id \in SessionIds :
            IF id \in Known THEN GetScanResult(id).scan_id = id
                            ELSE GetScanResult(id) = ScanNotFoundError)

\* C28 witness: cancel_scan was called with an id the table did not hold; a
\* second session was started after the first had completed, and both are in
\* the table.
C28_Witness ==
    /\ Len(sessions) = 2
    /\ ncancels = 1
    /\ \A id \in SessionIds : cancelCall[id] = NoCall
    /\ GetScanResult(1).status = "completed"
    /\ GetScanResult(2).status = "running"

\* the visible state of a session
Visible(sess) ==
    <<sess.status, sess.progress, sess.valid, sess.invalid, sess.error,
      sess.completed_at>>

\* C29: a step in which one session ends (completed, failed or cancelled)
\* leaves status, counters, error and completed_at of every other session as
\* they were; and whatever the other sessions did, a session whose task is
\* not over can take its next step, and a session whose task is over is
\* terminal.
C29_SessionsAreIndependent ==
    /\ [][\A id \in Known :
            (/\ sessions'[id].status # sessions[id].status
             /\ sessions'[id].status \in Terminal) =>
                \A other \in Known \ {id} :
                    Visible(sessions'[other]) = Visible(sessions[other])]_vars
    /\ [](\A id \in Known :
            IF sessions[id].task \in TaskOver
            THEN sessions[id].status \in Terminal
            ELSE \/ ENABLED TaskProbeTimesOut(id)
                 \/ ENABLED TaskCancelled(id)
                 \/ ENABLED TaskStarts(id)
                 \/ ENABLED TaskProbeReturns(id))

\* C29 witness: of two sessions, the first failed and the second then ran all
\* its targets and completed.
C29_Witness ==
    /\ Len(sessions) = 2
    /\ sessions[1].status = "failed"
    /\ sessions[2].status = "completed"
    /\ sessions[2].progress = MaxTargets
    /\ sessions[2].run.idx > sessions[1].run.idx

\* C30: while a progress callback called for a target has not returned, the
\* result of that target has not been yielded, nor any later one; and when
\* a result has been yielded, every callback registered before its dispatch
\* was called with the snapshot counting that target and has returned.
C30_ObserversBeforeYield ==
    /\ \A k \in Observers :
          obsPc[k] = "running" => Len(o_collected) < o_run.progress.completed
    /\ \A k \in Observers :
          obsPc[k] = "done" =>
              /\ o_seen[k] # <<>>
              /\ o_seen[k][Len(o_seen[k])] = o_run.progress
              /\ \A j \in 1..(k - 1) : obsPc[j] \in {"running", "done", "raised"}
    /\ o_run.pc = "yielded" =>
          /\ Len(o_collected) = o_run.progress.completed
          /\ \A k \in Registered : obsPc[k] \in {"idle", "done"}

\* C30 witness: the second target is being dispatched; one callback has
\* returned from both calls, the other has not returned from the second, and
\* only the first result has been yielded.
C30_Witness ==
    /\ o_run.pc = "dispatching"
    /\ o_run.progress.completed = 2
    /\ obsPc[1] = "done" /\ Len(o_seen[1]) = 2
    /\ obsPc[2] = "running" /\ Len(o_seen[2]) = 1
    /\ Len(o_collected) = 1

\* C31: within one execute_scan run at most one probe is in flight, and a
\* probe starts only in a step in which the consumer asks for the next
\* result, every earlier result having been yielded; while the consumer does
\* not ask, no probe starts.
C31_OneProbeAtATime ==
    /\ [](/\ o_run.cap - o_run.sem \in {0, 1}
          /\ o_run.cap - o_run.sem = 1 <=> o_run.pc = "probing"
          /\ o_run.pc = "probing" => Len(o_calls) = Len(o_collected) + 1)
    /\ [][Len(o_calls') > Len(o_calls) =>
            /\ o_run.pc \in {"init", "yielded"}
            /\ Len(o_collected) = Len(o_calls)
            /\ Len(o_calls') = Len(o_calls) + 1
            /\ o_run'.pc = "probing"]_vars

\* C31 witness: the probe of the second target is in flight; the first
\* result has been yielded.
C31_Witness ==
    /\ o_run.pc = "probing"
    /\ Len(o_calls) = 2
    /\ Len(o_collected) = 1
    /\ o_run.sem = o_run.cap - 1

\* progress, valid, invalid and total of a session
Counters(sess) == <<sess.progress, sess.valid, sess.invalid, sess.total>>

\* C32: the counters of a session change only in a step of its own task,
\* resumed from the probe it awaited; a step of cancel_scan (its call, or its
\* return after the wait for the task) and get_scan leave progress, valid,
\* invalid and total of every session as they were.
C32_OnlyTaskWritesCounters ==
    [][\A id \in Known :
          Counters(sessions'[id]) # Counters(sessions[id]) =>
              /\ ncancels' = ncancels
              /\ cancelWait' = cancelWait
              /\ sessions[id].task = "awaiting"
              /\ sessions'[id].total = sessions[id].total]_vars

\* C32 witness: cancel_scan returned for a session whose task had handled
\* one result; the session still shows that result in its counters.
C32_Witness ==
    /\ Len(sessions) >= 1
    /\ cancelReturn[1] # NoReturn
    /\ sessions[1].status = "cancelled"
    /\ sessions[1].progress = 1
    /\ sessions[1].valid + sessions[1].invalid = 1

\* C33: one capture runs the tool at most twice; a failed first run is
\* followed by exactly one run without acceleration when hwaccel was given,
\* and the outcome of that run is the outcome of the capture; when no hwaccel
\* was given a failed run is not repeated and its error is raised.
C33_SingleFallback ==
    /\ Len(sc_runs) <= 2
    /\ (Len(sc_runs) >= 1 /\ sc_runs[1].outcome = "error") =>
          IF HwaccelGiven(sc_args.hwaccel)
          THEN Len(sc_runs) = 2
          ELSE Len(sc_runs) = 1 /\ sc_thread = "raised"
    /\ Len(sc_runs) = 2 =>
          /\ HwaccelGiven(sc_args.hwaccel)
          /\ sc_runs[1].outcome = "error"
          /\ sc_runs[2].options = "software"
          /\ sc_runs[2].outcome = "ok" <=> sc_thread = "done"
          /\ sc_runs[2].outcome = "error" <=> sc_thread = "raised"

\* C33 witness: a capture with hwaccel cuda failed in its first run and
\* failed again in the run without acceleration; the caller got the error.
C33_Witness ==
    /\ sc_args.hwaccel = "cuda"
    /\ Len(sc_runs) = 2
    /\ sc_runs[1] = [options |-> "cuda", outcome |-> "error"]
    /\ sc_runs[2] = [options |-> "software", outcome |-> "error"]
    /\ sc_caller = "ffmpeg.Error"

\* what find_all() returns
Stored == ReadChannelsSync(repo_file)

\* a URL trimmed and lower-cased
Normalized(url) == Lower(Strip(url))

\* C34: no two stored channels have the same trimmed, lower-cased URL; an
\* add of a channel whose URL is stored replaces that entry where it is,
\* keeps its id and created_at, and leaves manually_edited set when the
\* stored or the incoming channel had it set
C34_UniqueNormalizedUrls ==
    /\ [](\A i, j \in 1..Len(Stored) :
            i # j => Normalized(Stored[i].url) # Normalized(Stored[j].url))
    /\ [][repo_ret'.op = "add" =>
            \A i \in 1..Len(Stored) :
                Normalized(Stored[i].url) = Normalized(repo_ret'.url) =>
                    LET after == ReadChannelsSync(repo_file') IN
                    /\ Len(after) = Len(Stored)
                    /\ after[i].url = Strip(repo_ret'.url)
                    /\ after[i].id = Stored[i].id
                    /\ after[i].created_at = Stored[i].created_at
                    /\ after[i].manually_edited =
                          (Stored[i].manually_edited \/ repo_ret'.edited)
                    /\ \A j \in 1..Len(Stored) :
                          j # i => after[j] = Stored[j]]_vars

\* an add of an unedited channel under another id and spelling has replaced
\* the first of two stored channels, which keeps its id and its manual edit
C34_Witness ==
    /\ repo_ret = [op |-> "add", index |-> 1, id |-> 2, url |-> <<"X">>,
                   edited |-> FALSE]
    /\ Len(Stored) = 2
    /\ Stored[1].id = 1
    /\ Stored[1].url = <<"X">>
    /\ Stored[1].manually_edited

\* C35: in every response of get_scan, completed_at is set exactly when the
\* status is completed, cancelled or failed
C35_CompletedAtIffTerminal ==
    \A id \in Known :
        GetScanResult(id).completed_at # NoStamp
            <=> GetScanResult(id).status \in {"completed", "cancelled", "failed"}

\* C36: in every state of every session progress = valid + invalid,
\* progress is at most the number of targets of the session's strategy,
\* which is its total, and no step lowers progress, valid or invalid
C36_CountersConsistent ==
    /\ [](\A id \in Known :
            /\ sessions[id].progress
                  = sessions[id].valid + sessions[id].invalid
            /\ sessions[id].progress <= Len(sessions[id].strategy)
            /\ sessions[id].total = Len(sessions[id].strategy))
    /\ [][\A id \in Known :
            /\ sessions'[id].progress >= sessions[id].progress
            /\ sessions'[id].valid >= sessions[id].valid
            /\ sessions'[id].invalid >= sessions[id].invalid]_vars

\* a scan of two targets has counted one valid and one invalid result
C36_Witness ==
    \E id \in Known :
        /\ Len(sessions[id].strategy) = 2
        /\ sessions[id].progress = 2
        /\ sessions[id].valid = 1
        /\ sessions[id].invalid = 1
        /\ sessions[id].status = "completed"

\* C37: under a fair event loop every session reaches the status completed,
\* cancelled or failed, and every cancel_scan call that waits for the task
\* of a session returns
C37_SessionsEnd ==
    \A id \in SessionIds :
        /\ (id \in Known)
              ~> (id \in Known /\ sessions[id].status \in Terminal)
        /\ (cancelWait[id] > 0) ~> (cancelWait[id] = 0)

\* a cancel_scan call that found its session running has waited for the
\* task, which ended cancelled, and has returned
C37_Witness ==
    \E id \in Known :
        /\ cancelCall[id].status = "running"
        /\ sessions[id].task = "cancelled"
        /\ cancelWait[id] = 0
        /\ cancelReturn[id] # NoReturn

\* the ports that validate on an address, of the ports of the strategy
ValidatingPorts(ip) ==
    {port \in Range(sp_strategy.ports) : sp_streams[<<ip, port>>]}

\* every address has the validating ports of the first, and there are some
SamePortsEverywhere ==
    /\ ValidatingPorts(sp_strategy.ips[1]) # {}
    /\ \A ip \in Range(sp_strategy.ips) :
          ValidatingPorts(ip) = ValidatingPorts(sp_strategy.ips[1])

\* the (address, port) pairs of the valid results emitted
ValidEmitted == {<<r.ip, r.port>> : r \in {e \in Range(sp_emitted) : e.is_valid}}

\* C38: when every address has the validating ports of the first and there
\* is one, a finished scan has emitted as valid exactly the pairs the
\* network validates, in smart mode and with smart mode disabled alike; the
\* disabled scan probes every address on every port, the smart scan makes
\* no more probes than that
C38_SmartEqualsExhaustive ==
    (sp_gen.pc = "done" /\ SamePortsEverywhere) =>
        /\ ValidEmitted =
              {pair \in Range(sp_strategy.ips) \X Range(sp_strategy.ports) :
                  sp_streams[pair]}
        /\ Len(sp_calls) <= Len(sp_strategy.ips) * Len(sp_strategy.ports)
        /\ ~sp_enable_smart_scan =>
              Len(sp_calls) = Len(sp_strategy.ips) * Len(sp_strategy.ports)

\* a smart scan of two addresses and two ports, one of which validates on
\* both addresses, has ended after three probes
C38_Witness ==
    /\ sp_gen.pc = "done"
    /\ sp_enable_smart_scan
    /\ SamePortsEverywhere
    /\ sp_strategy.ips = <<1, 2>>
    /\ sp_strategy.ports = <<8004, 8000>>
    /\ ValidEmitted = {<<1, 8000>>, <<2, 8000>>}
    /\ Len(sp_calls) = 3

\* an execute call waits for a slot
Blocked(c) == callKind[c] = "execute" /\ callPc[c] \in {"waiting", "woken"}

\* an `async with limiter:` block holds a slot
WithHolds(c) == callKind[c] = "with" /\ callPc[c] = "running"

\* no call goes from waiting for a slot to a timeout
NoTimeoutWhileBlocked ==
    [][\A c \in Callers : Blocked(c) => callPc'[c] # "timeout"]_vars

====
